---- MODULE Spec2Model ----
(***************************************************************************)
(* A model of the json-event-parser crate: the byte-level lexer            *)
(* (JsonLexer), the grammar state machine (LowLevelJsonReader), the        *)
(* event serializer (LowLevelJsonSerializer) and the drivers that feed     *)
(* them.  Bytes are integers 0..255, strings are sequences of Unicode      *)
(* scalar values, positions are byte offsets as in the source.             *)
(***************************************************************************)
EXTENDS Integers, Sequences, FiniteSets, TLC

(***************************************************************************)
(* Byte literals used by the source (b'{', b'"', ...).                     *)
(***************************************************************************)
Ascii ==
  [c \in {"{", "}", "[", "]", ",", ":", "q", "\\", "/", " ", "t", "n", "r",
          "b", "f", "u", "-", "+", ".", "e", "E", "0", "1", "9", "a", "z",
          "A", "F", "Z", "l", "s", "o", "x", "D", "8", "C", "2", "LF", "CR",
          "TAB"} |->
     CASE c = "{" -> 123 [] c = "}" -> 125 [] c = "[" -> 91 [] c = "]" -> 93
       [] c = "," -> 44 [] c = ":" -> 58 [] c = "q" -> 34 [] c = "\\" -> 92
       [] c = "/" -> 47 [] c = " " -> 32 [] c = "t" -> 116 [] c = "n" -> 110
       [] c = "r" -> 114 [] c = "b" -> 98 [] c = "f" -> 102 [] c = "u" -> 117
       [] c = "-" -> 45 [] c = "+" -> 43 [] c = "." -> 46 [] c = "e" -> 101
       [] c = "E" -> 69 [] c = "0" -> 48 [] c = "1" -> 49 [] c = "9" -> 57
       [] c = "a" -> 97 [] c = "z" -> 122 [] c = "A" -> 65 [] c = "F" -> 70
       [] c = "Z" -> 90 [] c = "l" -> 108 [] c = "s" -> 115 [] c = "o" -> 111
       [] c = "x" -> 120 [] c = "D" -> 68 [] c = "8" -> 56 [] c = "C" -> 67
       [] c = "2" -> 50
       [] c = "LF" -> 10 [] c = "CR" -> 13 [] c = "TAB" -> 9]

\* The bytes of a literal given as a tuple of one-character names.
Bytes(cs) == [i \in 1..Len(cs) |-> Ascii[cs[i]]]

\* The UTF-8 byte order mark, read.rs line 589.
BOM == <<239, 187, 191>>

\* U+FFFD, char::REPLACEMENT_CHARACTER.
REPLACEMENT_CHARACTER == 65533

Min(a, b) == IF a <= b THEN a ELSE b
Max(a, b) == IF a >= b THEN a ELSE b

\* slice[from..to) with 0-based offsets, as Rust's &buf[from..to].
Slice(buf, from, to) == SubSeq(buf, from + 1, to)
\* &buf[from..]
SliceFrom(buf, from) == SubSeq(buf, from + 1, Len(buf))
\* buf.starts_with(prefix)
starts_with(buf, prefix) ==
  Len(buf) >= Len(prefix) /\ SubSeq(buf, 1, Len(prefix)) = prefix

is_ascii_digit(c) == c >= 48 /\ c <= 57
is_ascii_alphabetic(c) == (c >= 65 /\ c <= 90) \/ (c >= 97 /\ c <= 122)

\* iter().take_while(pred).count() for the two predicates the source uses.
RECURSIVE CountWhileDigit(_, _)
CountWhileDigit(buf, i) ==
  IF i < Len(buf) /\ is_ascii_digit(buf[i + 1]) THEN CountWhileDigit(buf, i + 1) ELSE i

RECURSIVE CountWhileAlpha(_, _)
CountWhileAlpha(buf, i) ==
  IF i < Len(buf) /\ is_ascii_alphabetic(buf[i + 1]) THEN CountWhileAlpha(buf, i + 1) ELSE i

(***************************************************************************)
(* Syntax errors: message (the format string of the source), the values    *)
(* formatted into it, and the location range.                              *)
(***************************************************************************)
ZeroPos == [line |-> 0, column |-> 0, offset |-> 0]
NoError == [message |-> "", arg |-> <<>>, start |-> ZeroPos, end |-> ZeroPos]
IsError(e) == e.message # ""

\* error.or(e) / error.or_else(|| e): the first error is kept.
OrError(error, e) == IF IsError(error) THEN error ELSE e

\* A faulty syntax_error that reports every error at the start of its line.
syntax_error_no_column(lexer, from, to, message, arg) ==
  [message |-> message,
   arg |-> arg,
   start |-> [line |-> lexer.file_line, column |-> 0,
              offset |-> lexer.file_start_of_last_line],
   end |-> [line |-> lexer.file_line, column |-> 0,
            offset |-> lexer.file_start_of_last_line]]

syntax_error(lexer, from, to, message, arg) ==
  LET start_file_offset == Max(from, lexer.file_start_of_last_line)
  IN [message |-> message,
      arg |-> arg,
      start |-> [line |-> lexer.file_line,
                 column |-> start_file_offset - lexer.file_start_of_last_line,
                 offset |-> start_file_offset],
      end |-> [line |-> lexer.file_line,
               column |-> to - lexer.file_start_of_last_line,
               offset |-> to]]

(***************************************************************************)
(* str::from_utf8 of the Rust standard library: the well-formed UTF-8      *)
(* byte sequences (no overlong forms, no surrogates, at most U+10FFFF).    *)
(* Utf8Step gives, for the sequence starting at offset i, its length and   *)
(* scalar value, or the error length (0 = the input ends inside it).       *)
(***************************************************************************)
IsCont(buf, i) == i < Len(buf) /\ buf[i + 1] >= 128 /\ buf[i + 1] <= 191
InRange(buf, i, lo, hi) == i < Len(buf) /\ buf[i + 1] >= lo /\ buf[i + 1] <= hi

Utf8Step(buf, i) ==
  LET b0 == buf[i + 1]
      Bad(n) == [ok |-> FALSE, len |-> n, cp |-> 0]
      Good(n, v) == [ok |-> TRUE, len |-> n, cp |-> v]
      c(k) == buf[i + 1 + k] % 64
  IN IF b0 < 128 THEN Good(1, b0)
     ELSE IF b0 >= 194 /\ b0 <= 223 THEN
       IF i + 1 >= Len(buf) THEN Bad(0)
       ELSE IF ~IsCont(buf, i + 1) THEN Bad(1)
       ELSE Good(2, ((b0 % 32) * 64) + c(1))
     ELSE IF b0 >= 224 /\ b0 <= 239 THEN
       LET lo == IF b0 = 224 THEN 160 ELSE 128
           hi == IF b0 = 237 THEN 159 ELSE 191
       IN IF i + 1 >= Len(buf) THEN Bad(0)
          ELSE IF ~InRange(buf, i + 1, lo, hi) THEN Bad(1)
          ELSE IF i + 2 >= Len(buf) THEN Bad(0)
          ELSE IF ~IsCont(buf, i + 2) THEN Bad(2)
          ELSE Good(3, ((b0 % 16) * 4096) + (c(1) * 64) + c(2))
     ELSE IF b0 >= 240 /\ b0 <= 244 THEN
       LET lo == IF b0 = 240 THEN 144 ELSE 128
           hi == IF b0 = 244 THEN 143 ELSE 191
       IN IF i + 1 >= Len(buf) THEN Bad(0)
          ELSE IF ~InRange(buf, i + 1, lo, hi) THEN Bad(1)
          ELSE IF i + 2 >= Len(buf) THEN Bad(0)
          ELSE IF ~IsCont(buf, i + 2) THEN Bad(2)
          ELSE IF i + 3 >= Len(buf) THEN Bad(0)
          ELSE IF ~IsCont(buf, i + 3) THEN Bad(3)
          ELSE Good(4, ((b0 % 8) * 262144) + (c(1) * 4096) + (c(2) * 64) + c(3))
     ELSE Bad(1)

\* [ok, chars, valid_up_to, error_len]
RECURSIVE from_utf8(_, _, _)
from_utf8(buf, i, chars) ==
  IF i >= Len(buf) THEN [ok |-> TRUE, chars |-> chars, valid_up_to |-> i, error_len |-> 0]
  ELSE LET s == Utf8Step(buf, i)
       IN IF s.ok THEN from_utf8(buf, i + s.len, Append(chars, s.cp))
          ELSE [ok |-> FALSE, chars |-> chars, valid_up_to |-> i, error_len |-> s.len]

\* char::encode_utf8
encode_utf8(cp) ==
  IF cp < 128 THEN <<cp>>
  ELSE IF cp < 2048 THEN <<192 + (cp \div 64), 128 + (cp % 64)>>
  ELSE IF cp < 65536 THEN
    <<224 + (cp \div 4096), 128 + ((cp \div 64) % 64), 128 + (cp % 64)>>
  ELSE <<240 + (cp \div 262144), 128 + ((cp \div 4096) % 64),
         128 + ((cp \div 64) % 64), 128 + (cp % 64)>>

\* A faulty char::from_u32 that takes a surrogate for a char.
IsCodePoint(cp) == cp >= 0 /\ cp <= 1114111

\* char::from_u32(cp).is_some()
IsScalar(cp) == cp >= 0 /\ cp <= 1114111 /\ ~(cp >= 55296 /\ cp <= 57343)

(***************************************************************************)
(* JsonLexer.  A lexer value is the record of the struct's fields; every   *)
(* operation returns the updated lexer together with its result:           *)
(* kind "None" (more bytes needed), "Token" or "Error".                    *)
(***************************************************************************)
NoToken == [t |-> "NoToken", val |-> <<>>]
LexNone(lexer) == [lexer |-> lexer, kind |-> "None", token |-> NoToken, error |-> NoError]
LexToken(lexer, t, val) ==
  [lexer |-> lexer, kind |-> "Token", token |-> [t |-> t, val |-> val], error |-> NoError]
LexError(lexer, error) ==
  [lexer |-> lexer, kind |-> "Error", token |-> NoToken, error |-> error]

Advance(lexer, n) == [lexer EXCEPT !.file_offset = @ + n]

\* [ok, value, c]: c is the offending byte when not ok.
RECURSIVE read_hexa_loop(_, _, _)
read_hexa_loop(inp, i, value) ==
  IF i > Len(inp) THEN [ok |-> TRUE, value |-> value, c |-> 0]
  ELSE LET c == inp[i]
       IN IF c >= Ascii["0"] /\ c <= Ascii["9"]
            THEN read_hexa_loop(inp, i + 1, (value * 16) + (c - Ascii["0"]))
          ELSE IF c >= Ascii["a"] /\ c <= Ascii["f"]
            THEN read_hexa_loop(inp, i + 1, (value * 16) + (c - Ascii["a"]) + 10)
          ELSE IF c >= Ascii["A"] /\ c <= Ascii["F"]
            THEN read_hexa_loop(inp, i + 1, (value * 16) + (c - Ascii["A"]) + 10)
          ELSE [ok |-> FALSE, value |-> 0, c |-> c]

read_hexa_char(inp) == read_hexa_loop(inp, 1, 0)

HexaError == "Unexpected character in a unicode escape: '{}'"

\* read_digits: -1 stands for None.
read_digits(input_buffer, is_ending) ==
  LET count == CountWhileDigit(input_buffer, 0)
  IN IF count = Len(input_buffer) /\ ~is_ending THEN -1 ELSE count

\* decode_utf8: the decoded text and the error, if any.  On an error the
\* source returns the lossy decoding; the token is then dropped with the
\* error, so only the error is kept here.
decode_utf8(lexer, input_buffer, start_position) ==
  LET d == from_utf8(input_buffer, 0, <<>>)
      pos == start_position + d.valid_up_to
  IN IF d.ok THEN [str |-> d.chars, error |-> NoError]
     ELSE [str |-> Append(d.chars, REPLACEMENT_CHARACTER),
           error |-> syntax_error(lexer, pos, pos + 1, "Invalid UTF-8: {e}",
                                  <<d.valid_up_to, d.error_len>>)]

\* The \uXXXX arm of read_string, entered with next_byte_offset on the 'u'.
\* [more, nbo, s, error]: more = the buffer ended (the source's `?`).
read_unicode_escape(lexer, input_buffer, nbo0, s, error) ==
  LET More == [more |-> TRUE, nbo |-> nbo0, s |-> s, error |-> error]
      n1 == nbo0 + 1
      n2 == n1 + 4
      n3 == n2 + 6
      pos == lexer.file_offset + n2
      pos3 == lexer.file_offset + n3
      Pair(high_surrogate, low_surrogate, e5) ==
        LET cp == 65536 + ((high_surrogate % 1024) * 1024) + (low_surrogate % 1024)
        IN IF IsScalar(cp)
             THEN [more |-> FALSE, nbo |-> n3, s |-> Append(s, cp), error |-> e5]
           ELSE [more |-> FALSE, nbo |-> n3, s |-> Append(s, REPLACEMENT_CHARACTER),
                 error |-> OrError(e5, syntax_error(lexer, pos3 - 12, pos3,
                             "\\u{:X}\\u{:X} is an invalid surrogate pair",
                             <<high_surrogate, low_surrogate>>))]
      LowValue(high_surrogate, low_surrogate, e4) ==
        Pair(high_surrogate, low_surrogate,
             IF ~(low_surrogate >= 56320 /\ low_surrogate <= 57343)
               THEN OrError(e4, syntax_error(lexer, pos3 - 6, pos3,
                              "\\u{:X} is not a valid low surrogate",
                              <<low_surrogate>>))
             ELSE e4)
      Low(high_surrogate, l, e3) ==
        LowValue(high_surrogate,
                 IF l.ok THEN l.value ELSE REPLACEMENT_CHARACTER,
                 IF l.ok THEN e3
                 ELSE OrError(e3, syntax_error(lexer, pos3 - 6, pos3, HexaError, <<l.c>>)))
      Second(high_surrogate, val, e2) ==
        Low(high_surrogate, read_hexa_char(SliceFrom(val, 2)),
            IF ~starts_with(val, Bytes(<<"\\", "u">>))
              THEN OrError(e2, syntax_error(lexer, pos3 - 6, pos3,
                "\\u{:X} is a high surrogate and should be followed by a low surrogate \\uXXXX",
                <<high_surrogate>>))
            ELSE e2)
      High(high_surrogate, e1) ==
        IF n3 > Len(input_buffer) THEN More
        ELSE Second(high_surrogate, Slice(input_buffer, n2, n3),
                    IF ~(high_surrogate >= 55296 /\ high_surrogate <= 56319)
                      THEN OrError(e1, syntax_error(lexer, pos - 6, pos,
                                     "\\u{:X} is not a valid high surrogate",
                                     <<high_surrogate>>))
                    ELSE e1)
      First(code_point, e1) ==
        IF IsScalar(code_point)
          THEN [more |-> FALSE, nbo |-> n2, s |-> Append(s, code_point), error |-> e1]
        ELSE High(code_point, e1)
      Hexa(h) ==
        First(IF h.ok THEN h.value ELSE REPLACEMENT_CHARACTER,
              IF h.ok THEN error
              ELSE OrError(error, syntax_error(lexer, pos - 4, pos, HexaError, <<h.c>>)))
  IN IF n2 > Len(input_buffer) THEN More
     ELSE Hexa(read_hexa_char(Slice(input_buffer, n1, n2)))

\* The escape arm of read_string, entered with next_byte_offset on the byte
\* after the backslash.
read_escape(lexer, input_buffer, nbo, s, error) ==
  IF nbo >= Len(input_buffer) THEN [more |-> TRUE, nbo |-> nbo, s |-> s, error |-> error]
  ELSE
  LET c == input_buffer[nbo + 1]
      Push(ch) == [more |-> FALSE, nbo |-> nbo + 1, s |-> Append(s, ch), error |-> error]
  IN IF c = Ascii["q"] THEN Push(34)
     ELSE IF c = Ascii["\\"] THEN Push(92)
     ELSE IF c = Ascii["/"] THEN Push(47)
     ELSE IF c = Ascii["b"] THEN Push(8)
     ELSE IF c = Ascii["f"] THEN Push(12)
     ELSE IF c = Ascii["n"] THEN Push(10)
     ELSE IF c = Ascii["r"] THEN Push(13)
     ELSE IF c = Ascii["t"] THEN Push(9)
     ELSE IF c = Ascii["u"] THEN read_unicode_escape(lexer, input_buffer, nbo, s, error)
     ELSE LET pos == lexer.file_offset + nbo + 1
          IN [more |-> FALSE, nbo |-> nbo + 1,
              s |-> Append(s, REPLACEMENT_CHARACTER),
              error |-> OrError(error, syntax_error(lexer, pos - 2, pos,
                          "'\\{}' is not a valid escape sequence", <<c>>))]

\* The loop of read_string.  str = [some, s, read_until] is the source's
\* Option<(String, usize)>.
RECURSIVE read_string_loop(_, _, _, _, _)
read_string_loop(lexer, input_buffer, next_byte_offset, str, error) ==
  IF next_byte_offset >= Len(input_buffer) THEN LexNone(lexer)
  ELSE
  LET c == input_buffer[next_byte_offset + 1]
      after == Advance(lexer, next_byte_offset + 1)
      \* The final part of the string, decoded from read_until on.
      Decode(read_until) ==
        decode_utf8(lexer, Slice(input_buffer, read_until, next_byte_offset),
                    lexer.file_offset + read_until)
      Result(e, string) ==
        IF IsError(e) THEN LexError(after, e) ELSE LexToken(after, "String", string)
      Closed(d) ==
        IF IsError(error) THEN LexError(after, error)
        ELSE IF str.some THEN
          IF str.read_until < next_byte_offset
            THEN Result(OrError(error, d.error), str.s \o d.str)
          ELSE Result(error, str.s)
        ELSE Result(d.error, d.str)
      Continue(r) ==
        IF r.more THEN LexNone(lexer)
        ELSE read_string_loop(lexer, input_buffer, r.nbo,
                              [some |-> TRUE, s |-> r.s, read_until |-> r.nbo], r.error)
      Escaped(str1, d1) ==
        IF str1.read_until < next_byte_offset
          THEN Continue(read_escape(lexer, input_buffer, next_byte_offset + 1,
                                    str1.s \o d1.str, OrError(error, d1.error)))
        ELSE Continue(read_escape(lexer, input_buffer, next_byte_offset + 1,
                                  str1.s, error))
      Escape(str1) == Escaped(str1, Decode(str1.read_until))
  IN IF c = Ascii["q"] THEN Closed(Decode(IF str.some THEN str.read_until ELSE 1))
     ELSE IF c = Ascii["\\"] THEN
       Escape(IF str.some THEN str ELSE [some |-> TRUE, s |-> <<>>, read_until |-> 1])
     ELSE IF c <= 31 THEN
       LET pos == lexer.file_offset + next_byte_offset
       IN read_string_loop(lexer, input_buffer, next_byte_offset + 1, str,
            OrError(error, syntax_error(lexer, pos, pos + 1,
                      "'{}' is not allowed in JSON strings", <<c>>)))
     ELSE read_string_loop(lexer, input_buffer, next_byte_offset + 1, str, error)

read_string(lexer, input_buffer) ==
  read_string_loop(lexer, input_buffer, 1,
                   [some |-> FALSE, s |-> <<>>, read_until |-> 0], NoError)

\* A faulty read_constant that takes the end of the buffer for the end of
\* the word even when more bytes may follow.
read_constant_eager(lexer, input_buffer, is_ending, expected, value) ==
  IF Len(input_buffer) < Len(expected) THEN LexNone(lexer)
  ELSE IF SubSeq(input_buffer, 1, Len(expected)) = expected
    THEN LexToken(Advance(lexer, Len(expected)), value, <<>>)
  ELSE
  LET read == Max(1, CountWhileAlpha(input_buffer, 0))
      after == Advance(lexer, read)
  IN LexError(after, syntax_error(after, lexer.file_offset, after.file_offset,
                                  "{} expected", expected))

\* A faulty read_constant that counts the bytes of a word it cannot finish.
read_constant_counting(lexer, input_buffer, is_ending, expected, value) ==
  IF Len(input_buffer) < Len(expected) THEN LexNone(Advance(lexer, Len(input_buffer)))
  ELSE IF SubSeq(input_buffer, 1, Len(expected)) = expected
    THEN LexToken(Advance(lexer, Len(expected)), value, <<>>)
  ELSE
  LET read == Max(1, CountWhileAlpha(input_buffer, 0))
      after == Advance(lexer, read)
  IN IF CountWhileAlpha(input_buffer, 0) = Len(input_buffer) /\ ~is_ending
       THEN LexNone(after)
     ELSE LexError(after, syntax_error(after, lexer.file_offset, after.file_offset,
                                       "{} expected", expected))

\* A faulty read_constant that reports a word shorter than the literal as
\* an error when the buffer is final.
read_constant_final(lexer, input_buffer, is_ending, expected, value) ==
  IF Len(input_buffer) < Len(expected) /\ ~is_ending THEN LexNone(lexer)
  ELSE IF Len(input_buffer) >= Len(expected)
          /\ SubSeq(input_buffer, 1, Len(expected)) = expected
    THEN LexToken(Advance(lexer, Len(expected)), value, <<>>)
  ELSE
  LET ascii_chars == CountWhileAlpha(input_buffer, 0)
      read == Max(1, ascii_chars)
      start_offset == lexer.file_offset
      after == Advance(lexer, read)
  IN IF ascii_chars = Len(input_buffer) /\ ~is_ending THEN LexNone(lexer)
     ELSE LexError(after, syntax_error(after, start_offset, after.file_offset,
                                       "{} expected", expected))

read_constant(lexer, input_buffer, is_ending, expected, value) ==
  IF Len(input_buffer) < Len(expected) THEN LexNone(lexer)
  ELSE IF SubSeq(input_buffer, 1, Len(expected)) = expected
    THEN LexToken(Advance(lexer, Len(expected)), value, <<>>)
  ELSE
  LET ascii_chars == CountWhileAlpha(input_buffer, 0)
      read == Max(1, ascii_chars)
      start_offset == lexer.file_offset
      after == Advance(lexer, read)
  IN IF ascii_chars = Len(input_buffer) /\ ~is_ending THEN LexNone(lexer)
     ELSE LexError(after, syntax_error(after, start_offset, after.file_offset,
                                       "{} expected", expected))

\* The end of read_number: the token borrows input_buffer[..next_byte_offset].
number_token(lexer, input_buffer, next_byte_offset) ==
  LexToken(Advance(lexer, next_byte_offset), "Number",
           Slice(input_buffer, 0, next_byte_offset))

\* An error of read_number located at the byte before next_byte_offset.
number_error(lexer, next_byte_offset, message, c) ==
  LET after == Advance(lexer, next_byte_offset)
  IN LexError(after, syntax_error(after, after.file_offset - 1, after.file_offset,
                                  message, <<c>>))

\* The "Exp" part of read_number.
number_exp(lexer, input_buffer, is_ending, nbo) ==
  IF nbo >= Len(input_buffer) /\ ~is_ending THEN LexNone(lexer)
  ELSE IF nbo < Len(input_buffer)
          /\ input_buffer[nbo + 1] \in {Ascii["e"], Ascii["E"]} THEN
    LET n1 == nbo + 1
    IN IF n1 >= Len(input_buffer) THEN LexNone(lexer)
       ELSE
       LET c == input_buffer[n1 + 1]
           Digits(n) ==
             LET d == read_digits(SliceFrom(input_buffer, n), is_ending)
             IN IF d = -1 THEN LexNone(lexer)
                ELSE number_token(lexer, input_buffer, n + d)
       IN IF c \in {Ascii["-"], Ascii["+"]} THEN
            LET n2 == n1 + 1
            IN IF n2 >= Len(input_buffer) THEN LexNone(lexer)
               ELSE IF ~is_ascii_digit(input_buffer[n2 + 1])
                 THEN number_error(lexer, n2 + 1,
                        "A number exponential part must contain at least a digit, '{}' found",
                        input_buffer[n2 + 1])
               ELSE Digits(n2 + 1)
          ELSE IF is_ascii_digit(c) THEN Digits(n1 + 1)
          ELSE number_error(lexer, n1 + 1,
                 "A number exponential part must start with +, - or a digit, '{}' found", c)
  ELSE number_token(lexer, input_buffer, nbo)

\* A faulty "Dot" part that takes a dot with no digit after it.
number_dot_bare(lexer, input_buffer, is_ending, nbo) ==
  IF nbo < Len(input_buffer) /\ input_buffer[nbo + 1] = Ascii["."] THEN
    number_exp(lexer, input_buffer, is_ending,
               nbo + 1 + CountWhileDigit(SliceFrom(input_buffer, nbo + 1), 0))
  ELSE number_exp(lexer, input_buffer, is_ending, nbo)

\* The "Dot" part of read_number.
number_dot(lexer, input_buffer, is_ending, nbo) ==
  IF nbo >= Len(input_buffer) /\ ~is_ending THEN LexNone(lexer)
  ELSE IF nbo < Len(input_buffer) /\ input_buffer[nbo + 1] = Ascii["."] THEN
    LET n1 == nbo + 1
    IN IF n1 >= Len(input_buffer) THEN LexNone(lexer)
       ELSE
       LET c == input_buffer[n1 + 1]
           n2 == n1 + 1
           d == read_digits(SliceFrom(input_buffer, n2), is_ending)
       IN IF ~is_ascii_digit(c)
            THEN number_error(lexer, n2,
                   "A number fractional part must start with a digit and not '{}'", c)
          ELSE IF d = -1 THEN LexNone(lexer)
          ELSE number_exp(lexer, input_buffer, is_ending, n2 + d)
  ELSE number_exp(lexer, input_buffer, is_ending, nbo)

read_number(lexer, input_buffer, is_ending) ==
  LET n0 == IF input_buffer[1] = Ascii["-"] THEN 1 ELSE 0
  IN IF n0 >= Len(input_buffer) THEN LexNone(lexer)
     ELSE
     LET c == input_buffer[n0 + 1]
         d == read_digits(SliceFrom(input_buffer, n0 + 1), is_ending)
     IN IF c = Ascii["0"] THEN number_dot(lexer, input_buffer, is_ending, n0 + 1)
        ELSE IF c >= Ascii["1"] /\ c <= Ascii["9"] THEN
          IF d = -1 THEN LexNone(lexer)
          ELSE number_dot(lexer, input_buffer, is_ending, n0 + 1 + d)
        ELSE number_error(lexer, n0 + 1, "A number is not allowed to start with '{}'", c)

\* A faulty whitespace loop that takes '\r' for a line break of its own,
\* whatever follows it.
RECURSIVE skip_whitespaces_cr_alone(_, _, _, _)
skip_whitespaces_cr_alone(lexer, input_buffer, i, is_ending) ==
  IF i >= Len(input_buffer) THEN [lexer |-> lexer, i |-> i, need_more |-> FALSE]
  ELSE
  LET c == input_buffer[i + 1]
      NewLine(j) == [lexer EXCEPT !.file_line = @ + 1,
                                  !.file_start_of_last_line = lexer.file_offset + j]
  IN IF c = Ascii[" "] \/ c = Ascii["TAB"]
       THEN skip_whitespaces_cr_alone(lexer, input_buffer, i + 1, is_ending)
     ELSE IF c = Ascii["LF"] \/ c = Ascii["CR"]
       THEN skip_whitespaces_cr_alone(NewLine(i + 1), input_buffer, i + 1, is_ending)
     ELSE [lexer |-> lexer, i |-> i, need_more |-> FALSE]

\* A faulty whitespace loop that counts a '\r' at the end of a non-final
\* buffer at once.
RECURSIVE skip_whitespaces_cr_eager(_, _, _, _)
skip_whitespaces_cr_eager(lexer, input_buffer, i, is_ending) ==
  IF i >= Len(input_buffer) THEN [lexer |-> lexer, i |-> i, need_more |-> FALSE]
  ELSE
  LET c == input_buffer[i + 1]
      NewLine(j) == [lexer EXCEPT !.file_line = @ + 1,
                                  !.file_start_of_last_line = lexer.file_offset + j]
  IN IF c = Ascii[" "] \/ c = Ascii["TAB"]
       THEN skip_whitespaces_cr_eager(lexer, input_buffer, i + 1, is_ending)
     ELSE IF c = Ascii["LF"]
       THEN skip_whitespaces_cr_eager(NewLine(i + 1), input_buffer, i + 1, is_ending)
     ELSE IF c = Ascii["CR"] THEN
       IF i + 1 < Len(input_buffer) THEN
         LET j == IF input_buffer[i + 2] = Ascii["LF"] THEN i + 2 ELSE i + 1
         IN skip_whitespaces_cr_eager(NewLine(j), input_buffer, j, is_ending)
       ELSE skip_whitespaces_cr_eager(NewLine(i + 1), input_buffer, i + 1, is_ending)
     ELSE [lexer |-> lexer, i |-> i, need_more |-> FALSE]

\* The whitespace loop of read_next_token: [lexer, i, need_more]
\* (need_more: the early `return None` on a trailing '\r').
RECURSIVE skip_whitespaces(_, _, _, _)
skip_whitespaces(lexer, input_buffer, i, is_ending) ==
  IF i >= Len(input_buffer) THEN [lexer |-> lexer, i |-> i, need_more |-> FALSE]
  ELSE
  LET c == input_buffer[i + 1]
      NewLine(j) == [lexer EXCEPT !.file_line = @ + 1,
                                  !.file_start_of_last_line = lexer.file_offset + j]
  IN IF c = Ascii[" "] \/ c = Ascii["TAB"]
       THEN skip_whitespaces(lexer, input_buffer, i + 1, is_ending)
     ELSE IF c = Ascii["LF"]
       THEN skip_whitespaces(NewLine(i + 1), input_buffer, i + 1, is_ending)
     ELSE IF c = Ascii["CR"] THEN
       IF i + 1 < Len(input_buffer) THEN
         LET j == IF input_buffer[i + 2] = Ascii["LF"] THEN i + 2 ELSE i + 1
         IN skip_whitespaces(NewLine(j), input_buffer, j, is_ending)
       ELSE IF ~is_ending THEN [lexer |-> lexer, i |-> i, need_more |-> TRUE]
       ELSE skip_whitespaces(NewLine(i + 1), input_buffer, i + 1, is_ending)
     ELSE [lexer |-> lexer, i |-> i, need_more |-> FALSE]

\* read_next_token after the whitespace: the match on the first byte.
read_first_byte(lexer, input_buffer, is_ending) ==
  IF is_ending /\ input_buffer = <<>> THEN LexToken(lexer, "Eof", <<>>)
  ELSE IF input_buffer = <<>> THEN LexNone(lexer)
  ELSE
  LET c == input_buffer[1]
      after == Advance(lexer, 1)
  IN IF c = Ascii["{"] THEN LexToken(after, "OpeningCurlyBracket", <<>>)
     ELSE IF c = Ascii["}"] THEN LexToken(after, "ClosingCurlyBracket", <<>>)
     ELSE IF c = Ascii["["] THEN LexToken(after, "OpeningSquareBracket", <<>>)
     ELSE IF c = Ascii["]"] THEN LexToken(after, "ClosingSquareBracket", <<>>)
     ELSE IF c = Ascii[","] THEN LexToken(after, "Comma", <<>>)
     ELSE IF c = Ascii[":"] THEN LexToken(after, "Colon", <<>>)
     ELSE IF c = Ascii["q"] THEN read_string(lexer, input_buffer)
     ELSE IF c = Ascii["t"]
       THEN read_constant(lexer, input_buffer, is_ending, Bytes(<<"t", "r", "u", "e">>), "True")
     ELSE IF c = Ascii["f"]
       THEN read_constant(lexer, input_buffer, is_ending,
                          Bytes(<<"f", "a", "l", "s", "e">>), "False")
     ELSE IF c = Ascii["n"]
       THEN read_constant(lexer, input_buffer, is_ending, Bytes(<<"n", "u", "l", "l">>), "Null")
     ELSE IF c = Ascii["-"] \/ is_ascii_digit(c) THEN read_number(lexer, input_buffer, is_ending)
     ELSE LexError(after, syntax_error(after, after.file_offset - 1, after.file_offset,
                     IF c < 128 THEN "Unexpected char: '{}'" ELSE "Unexpected byte: \\x{c:X}",
                     <<c>>))

read_next_token(lexer, input_buffer, is_ending) ==
  IF lexer.is_start /\ Len(input_buffer) < 3 /\ ~is_ending THEN LexNone(lexer)
  ELSE
  LET has_bom == lexer.is_start /\ starts_with(input_buffer, BOM)
      \* After the whitespace loop: ws = [lexer, i, need_more].
      Skipped(buf1, ws) ==
        IF ws.need_more THEN LexNone(Advance(ws.lexer, ws.i))
        ELSE read_first_byte(
               [ws.lexer EXCEPT !.file_offset = @ + ws.i,
                                !.file_start_of_last_token = ws.lexer.file_offset + ws.i],
               SliceFrom(buf1, ws.i), is_ending)
      \* After the byte order mark.
      Started(l1, buf1) == Skipped(buf1, skip_whitespaces(l1, buf1, 0, is_ending))
  IN Started([lexer EXCEPT !.is_start = FALSE,
                           !.file_offset = IF has_bom THEN @ + 3 ELSE @],
             IF has_bom THEN SliceFrom(input_buffer, 3) ELSE input_buffer)

(***************************************************************************)
(* LowLevelJsonReader: the grammar state machine over the lexer's tokens.  *)
(* state_stack is the Vec<JsonState>, its top is the last element.         *)
(***************************************************************************)
MAX_STATE_STACK_SIZE == 65536

NoEvent == [kind |-> "None", val |-> <<>>]
Event(kind, val) == [kind |-> kind, val |-> val]
\* Option<String>: the message of a grammar error and the value formatted into it.
NoMessage == [message |-> "", arg |-> <<>>]
Message(m) == [message |-> m, arg |-> <<>>]

NewLexer ==
  [file_offset |-> 0, file_line |-> 0, file_start_of_last_line |-> 0,
   file_start_of_last_token |-> 0, is_start |-> TRUE]

\* LowLevelJsonReader::new()
NewReader ==
  [lexer |-> NewLexer, state_stack |-> <<>>,
   max_state_stack_size |-> MAX_STATE_STACK_SIZE,
   element_read |-> FALSE, buffered_event |-> NoEvent]

with_max_stack_size(reader, size) == [reader EXCEPT !.max_state_stack_size = size]

Top(stack) == stack[Len(stack)]
Pop(stack) == SubSeq(stack, 1, Len(stack) - 1)

\* "" when the size is accepted, else the error message.
check_stack_size(reader) ==
  IF Len(reader.state_stack) > reader.max_state_stack_size
    THEN [message |-> "Max stack size of {} reached on an object opening",
          arg |-> <<reader.max_state_stack_size>>]
  ELSE NoMessage

\* [reader, error]
push_state_stack(reader, state) ==
  LET e == check_stack_size(reader)
  IN IF e # NoMessage THEN [reader |-> reader, error |-> e]
     ELSE [reader |-> [reader EXCEPT !.state_stack = Append(@, state)], error |-> NoMessage]

\* The (Option<JsonEvent>, Option<String>) pair with the reader it leaves.
Applied(reader, event, error) == [reader |-> reader, event |-> event, error |-> error]

apply_new_token_for_value(reader, token) ==
  LET t == token.t
  IN IF t = "OpeningSquareBracket" THEN
       LET r == push_state_stack(reader, "ArrayValueOrEnd")
       IN Applied(r.reader, Event("StartArray", <<>>), r.error)
     ELSE IF t = "ClosingSquareBracket" THEN
       Applied(reader, NoEvent, Message("Unexpected closing square bracket, no array to close"))
     ELSE IF t = "OpeningCurlyBracket" THEN
       LET r == push_state_stack(reader, "ObjectKeyOrEnd")
       IN Applied(r.reader, Event("StartObject", <<>>), r.error)
     ELSE IF t = "ClosingCurlyBracket" THEN
       Applied(reader, NoEvent, Message("Unexpected closing curly bracket, no array to close"))
     ELSE IF t = "Comma" THEN
       Applied(reader, NoEvent, Message("Unexpected comma, no values to separate"))
     ELSE IF t = "Colon" THEN
       Applied(reader, NoEvent, Message("Unexpected colon, no key to follow"))
     ELSE IF t = "String" THEN Applied(reader, Event("String", token.val), NoMessage)
     ELSE IF t = "Number" THEN Applied(reader, Event("Number", token.val), NoMessage)
     ELSE IF t = "True" THEN Applied(reader, Event("Boolean", <<1>>), NoMessage)
     ELSE IF t = "False" THEN Applied(reader, Event("Boolean", <<0>>), NoMessage)
     ELSE IF t = "Null" THEN Applied(reader, Event("Null", <<>>), NoMessage)
     ELSE Applied(reader, Event("Eof", <<>>),
                  Message("Unexpected end of file, a value was expected"))

RECURSIVE apply_new_token(_, _)

\* The arms of apply_new_token, each entered with the top state popped.
apply_ObjectKeyOrEnd(reader, token) ==
  IF token.t = "ClosingCurlyBracket" THEN Applied(reader, Event("EndObject", <<>>), NoMessage)
  ELSE LET r == push_state_stack(reader, "ObjectKey")
       IN IF r.error # NoMessage THEN Applied(r.reader, NoEvent, r.error)
          ELSE apply_new_token(r.reader, token)

\* A faulty ObjectKey arm that reports the key as a String value.
apply_ObjectKey_as_string(reader, token) ==
  IF token.t = "ClosingCurlyBracket"
    THEN Applied(reader, Event("EndObject", <<>>), Message("Trailing commas are not allowed"))
  ELSE LET r == push_state_stack(reader, "ObjectColon")
       IN IF r.error # NoMessage THEN Applied(r.reader, NoEvent, r.error)
          ELSE IF token.t = "String"
            THEN Applied(r.reader, Event("String", token.val), NoMessage)
          ELSE Applied(r.reader, NoEvent, Message("Object keys must be strings"))

\* A faulty ObjectKey arm that reports the trailing comma and keeps the
\* object open.
apply_ObjectKey_no_close(reader, token) ==
  IF token.t = "ClosingCurlyBracket"
    THEN Applied([reader EXCEPT !.state_stack = Append(@, "ObjectKey")], NoEvent,
                 Message("Trailing commas are not allowed"))
  ELSE LET r == push_state_stack(reader, "ObjectColon")
       IN IF r.error # NoMessage THEN Applied(r.reader, NoEvent, r.error)
          ELSE IF token.t = "String"
            THEN Applied(r.reader, Event("ObjectKey", token.val), NoMessage)
          ELSE Applied(r.reader, NoEvent, Message("Object keys must be strings"))

apply_ObjectKey(reader, token) ==
  IF token.t = "ClosingCurlyBracket"
    THEN Applied(reader, Event("EndObject", <<>>), Message("Trailing commas are not allowed"))
  ELSE LET r == push_state_stack(reader, "ObjectColon")
       IN IF r.error # NoMessage THEN Applied(r.reader, NoEvent, r.error)
          ELSE IF token.t = "String"
            THEN Applied(r.reader, Event("ObjectKey", token.val), NoMessage)
          ELSE Applied(r.reader, NoEvent, Message("Object keys must be strings"))

\* A faulty ObjectColon arm that drops the token read in place of ':'.
apply_ObjectColon_drop(reader, token) ==
  LET r == push_state_stack(reader, "ObjectValue")
  IN IF r.error # NoMessage THEN Applied(r.reader, NoEvent, r.error)
     ELSE IF token.t = "Colon" THEN Applied(r.reader, NoEvent, NoMessage)
     ELSE Applied(r.reader, NoEvent, Message("Object keys must be strings"))

apply_ObjectColon(reader, token) ==
  LET r == push_state_stack(reader, "ObjectValue")
  IN IF r.error # NoMessage THEN Applied(r.reader, NoEvent, r.error)
     ELSE IF token.t = "Colon" THEN Applied(r.reader, NoEvent, NoMessage)
     ELSE LET a == apply_new_token(r.reader, token)
          IN Applied(a.reader, a.event, Message("Object keys must be strings"))

apply_ObjectValue(reader, token) ==
  LET r == push_state_stack(reader, "ObjectCommaOrEnd")
  IN IF r.error # NoMessage THEN Applied(r.reader, NoEvent, r.error)
     ELSE apply_new_token_for_value(r.reader, token)

\* A faulty ObjectCommaOrEnd arm that keeps the state on an unexpected token.
apply_ObjectCommaOrEnd_keep(reader, token) ==
  IF token.t = "Comma" THEN
    LET r == push_state_stack(reader, "ObjectKey")
    IN Applied(r.reader, NoEvent, r.error)
  ELSE IF token.t = "ClosingCurlyBracket"
    THEN Applied(reader, Event("EndObject", <<>>), NoMessage)
  ELSE Applied([reader EXCEPT !.state_stack = Append(@, "ObjectCommaOrEnd")], NoEvent,
         Message("Object values must be followed by a comma to add a new value or a curly bracket to end the object"))

apply_ObjectCommaOrEnd(reader, token) ==
  IF token.t = "Comma" THEN
    LET r == push_state_stack(reader, "ObjectKey")
    IN Applied(r.reader, NoEvent, r.error)
  ELSE IF token.t = "ClosingCurlyBracket"
    THEN Applied(reader, Event("EndObject", <<>>), NoMessage)
  ELSE Applied(reader, NoEvent,
         Message("Object values must be followed by a comma to add a new value or a curly bracket to end the object"))

apply_ArrayValueOrEnd(reader, token) ==
  IF token.t = "ClosingSquareBracket" THEN Applied(reader, Event("EndArray", <<>>), NoMessage)
  ELSE LET r == push_state_stack(reader, "ArrayValue")
       IN IF r.error # NoMessage THEN Applied(r.reader, NoEvent, r.error)
          ELSE apply_new_token(r.reader, token)

\* A faulty ArrayValue arm that reports the trailing comma without closing
\* the array.
apply_ArrayValue_no_close(reader, token) ==
  IF token.t = "ClosingSquareBracket"
    THEN Applied(reader, NoEvent, Message("Trailing commas are not allowed"))
  ELSE LET r == push_state_stack(reader, "ArrayCommaOrEnd")
       IN IF r.error # NoMessage THEN Applied(r.reader, NoEvent, r.error)
          ELSE apply_new_token_for_value(r.reader, token)

apply_ArrayValue(reader, token) ==
  IF token.t = "ClosingSquareBracket"
    THEN Applied(reader, Event("EndArray", <<>>), Message("Trailing commas are not allowed"))
  ELSE LET r == push_state_stack(reader, "ArrayCommaOrEnd")
       IN IF r.error # NoMessage THEN Applied(r.reader, NoEvent, r.error)
          ELSE apply_new_token_for_value(r.reader, token)

\* A faulty ArrayCommaOrEnd arm that drops the token read in place of ','.
apply_ArrayCommaOrEnd_drop(reader, token) ==
  IF token.t = "Comma" THEN
    LET r == push_state_stack(reader, "ArrayValue")
    IN Applied(r.reader, NoEvent, r.error)
  ELSE IF token.t = "ClosingSquareBracket"
    THEN Applied(reader, Event("EndArray", <<>>), NoMessage)
  ELSE Applied([reader EXCEPT !.state_stack = Append(@, "ArrayCommaOrEnd")], NoEvent,
         Message("Array values must be followed by a comma to add a new value or a squared bracket to end the array"))

apply_ArrayCommaOrEnd(reader, token) ==
  IF token.t = "Comma" THEN
    LET r == push_state_stack(reader, "ArrayValue")
    IN Applied(r.reader, NoEvent, r.error)
  ELSE IF token.t = "ClosingSquareBracket"
    THEN Applied(reader, Event("EndArray", <<>>), NoMessage)
  ELSE LET r == push_state_stack(reader, "ArrayValue")
           a == apply_new_token(r.reader, token)
       IN Applied(a.reader, a.event,
            Message("Array values must be followed by a comma to add a new value or a squared bracket to end the array"))

\* The None arm: the state stack is empty.
\* A faulty None arm that takes a value whenever the stack is empty.
apply_root_again(reader, token) ==
  IF reader.element_read /\ token.t = "Eof"
    THEN Applied(reader, Event("Eof", <<>>), NoMessage)
  ELSE apply_new_token_for_value([reader EXCEPT !.element_read = TRUE], token)

apply_root(reader, token) ==
  IF reader.element_read THEN
    IF token.t = "Eof" THEN Applied(reader, Event("Eof", <<>>), NoMessage)
    ELSE Applied(reader, NoEvent, Message("The JSON already contains one root element"))
  ELSE apply_new_token_for_value([reader EXCEPT !.element_read = TRUE], token)

apply_new_token(reader, token) ==
  IF reader.state_stack = <<>> THEN apply_root(reader, token)
  ELSE
  LET top == Top(reader.state_stack)
      popped == [reader EXCEPT !.state_stack = Pop(@)]
  IN CASE top = "ObjectKeyOrEnd" -> apply_ObjectKeyOrEnd(popped, token)
       [] top = "ObjectKey" -> apply_ObjectKey(popped, token)
       [] top = "ObjectColon" -> apply_ObjectColon(popped, token)
       [] top = "ObjectValue" -> apply_ObjectValue(popped, token)
       [] top = "ObjectCommaOrEnd" -> apply_ObjectCommaOrEnd(popped, token)
       [] top = "ArrayValueOrEnd" -> apply_ArrayValueOrEnd(popped, token)
       [] top = "ArrayValue" -> apply_ArrayValue(popped, token)
       [] top = "ArrayCommaOrEnd" -> apply_ArrayCommaOrEnd(popped, token)

\* LowLevelJsonReaderResult with the reader after the call.
\* kind: "None" (event: None), "Event" (Some(Ok)), "Error" (Some(Err)).
ReaderResult(reader, consumed_bytes, kind, event, error) ==
  [reader |-> reader, consumed_bytes |-> consumed_bytes, kind |-> kind,
   event |-> event, error |-> error]

\* A faulty token loop that gives up the state on top of the stack when the
\* lexer returns an error.
RECURSIVE read_event_loop_pop(_, _, _, _)
read_event_loop_pop(reader, input_buffer, is_ending, start_file_offset) ==
  LET \* a = the (event, error) pair of apply_new_token for the token of r.
      WithApplied(r, consumed_bytes, a) ==
        IF a.error # NoMessage THEN
          ReaderResult([a.reader EXCEPT !.buffered_event = a.event], consumed_bytes,
            "Error", NoEvent,
            syntax_error(r.lexer, r.lexer.file_start_of_last_token, r.lexer.file_offset,
                         a.error.message, a.error.arg))
        ELSE IF a.event # NoEvent THEN
          ReaderResult(a.reader, consumed_bytes, "Event", a.event, NoError)
        ELSE read_event_loop_pop(a.reader, input_buffer, is_ending, start_file_offset)
      \* r = what read_next_token returned, r1 = the reader after it.
      WithToken(r, consumed_bytes, r1) ==
        IF r.kind = "None" THEN
          IF is_ending THEN
            ReaderResult([r1 EXCEPT !.buffered_event = Event("Eof", <<>>)], consumed_bytes,
              "Error", NoEvent,
              syntax_error(r.lexer, r.lexer.file_offset, r.lexer.file_offset + 1,
                           "Unexpected end of file", <<>>))
          ELSE ReaderResult(r1, consumed_bytes, "None", NoEvent, NoError)
        ELSE IF r.kind = "Error" THEN
          ReaderResult([r1 EXCEPT !.state_stack = IF @ = <<>> THEN @ ELSE Pop(@)],
                       consumed_bytes, "Error", NoEvent, r.error)
        ELSE WithApplied(r, consumed_bytes, apply_new_token(r1, r.token))
      Lexed(r) ==
        WithToken(r, r.lexer.file_offset - start_file_offset,
                  [reader EXCEPT !.lexer = r.lexer])
  IN Lexed(read_next_token(reader.lexer,
             SliceFrom(input_buffer, reader.lexer.file_offset - start_file_offset),
             is_ending))

\* The `while let Some(token)` loop of read_next_event and what follows it.
RECURSIVE read_event_loop(_, _, _, _)
read_event_loop(reader, input_buffer, is_ending, start_file_offset) ==
  LET \* a = the (event, error) pair of apply_new_token for the token of r.
      WithApplied(r, consumed_bytes, a) ==
        IF a.error # NoMessage THEN
          ReaderResult([a.reader EXCEPT !.buffered_event = a.event], consumed_bytes,
            "Error", NoEvent,
            syntax_error(r.lexer, r.lexer.file_start_of_last_token, r.lexer.file_offset,
                         a.error.message, a.error.arg))
        ELSE IF a.event # NoEvent THEN
          ReaderResult(a.reader, consumed_bytes, "Event", a.event, NoError)
        ELSE read_event_loop(a.reader, input_buffer, is_ending, start_file_offset)
      \* r = what read_next_token returned, r1 = the reader after it.
      WithToken(r, consumed_bytes, r1) ==
        IF r.kind = "None" THEN
          IF is_ending THEN
            ReaderResult([r1 EXCEPT !.buffered_event = Event("Eof", <<>>)], consumed_bytes,
              "Error", NoEvent,
              syntax_error(r.lexer, r.lexer.file_offset, r.lexer.file_offset + 1,
                           "Unexpected end of file", <<>>))
          ELSE ReaderResult(r1, consumed_bytes, "None", NoEvent, NoError)
        ELSE IF r.kind = "Error" THEN
          ReaderResult(r1, consumed_bytes, "Error", NoEvent, r.error)
        ELSE WithApplied(r, consumed_bytes, apply_new_token(r1, r.token))
      Lexed(r) ==
        WithToken(r, r.lexer.file_offset - start_file_offset,
                  [reader EXCEPT !.lexer = r.lexer])
  IN Lexed(read_next_token(reader.lexer,
             SliceFrom(input_buffer, reader.lexer.file_offset - start_file_offset),
             is_ending))

\* A faulty read_next_event that returns the buffered event and leaves it in
\* the buffer.
read_next_event_keep(reader, input_buffer, is_ending) ==
  IF reader.buffered_event # NoEvent
    THEN ReaderResult(reader, 0, "Event", reader.buffered_event, NoError)
  ELSE read_event_loop(reader, input_buffer, is_ending, reader.lexer.file_offset)

\* A faulty read_next_event that asks for more bytes at the end of the last
\* buffer.
read_next_event_waiting(reader, input_buffer, is_ending) ==
  IF reader.buffered_event # NoEvent
    THEN ReaderResult([reader EXCEPT !.buffered_event = NoEvent], 0, "Event",
                      reader.buffered_event, NoError)
  ELSE read_event_loop(reader, input_buffer, FALSE, reader.lexer.file_offset)

read_next_event(reader, input_buffer, is_ending) ==
  IF reader.buffered_event # NoEvent
    THEN ReaderResult([reader EXCEPT !.buffered_event = NoEvent], 0, "Event",
                      reader.buffered_event, NoError)
  ELSE read_event_loop(reader, input_buffer, is_ending, reader.lexer.file_offset)

(***************************************************************************)
(* LowLevelJsonSerializer.  A call returns the serializer after it, the    *)
(* bytes it wrote and its error message ("" for Ok(())).                   *)
(***************************************************************************)
NewSerializer == [state_stack |-> <<>>, element_written |-> FALSE]

Written(writer, bytes, error) == [writer |-> writer, bytes |-> bytes, error |-> error]

HexDigit(ch) == IF ch < 10 THEN Ascii["0"] + ch ELSE Ascii["A"] + ch - 10

\* A faulty write_escaped_char that escapes only the quote and the backslash.
write_unescaped_char(c) ==
  IF c = 92 THEN Bytes(<<"\\", "\\">>)
  ELSE IF c = 34 THEN Bytes(<<"\\", "q">>)
  ELSE encode_utf8(c)

\* The bytes written for one char of the string.
\* A faulty write_escaped_char that writes a supplementary code point as
\* the \uHHHH\uLLLL escape of its surrogate pair.
write_escaped_char_surrogates(c) ==
  LET Escape(u) == <<Ascii["\\"], Ascii["u"],
                     HexDigit((u \div 4096) % 16), HexDigit((u \div 256) % 16),
                     HexDigit((u \div 16) % 16), HexDigit(u % 16)>>
  IN IF c = 92 THEN Bytes(<<"\\", "\\">>)
     ELSE IF c = 34 THEN Bytes(<<"\\", "q">>)
     ELSE IF c < 32 THEN
       IF c = 8 THEN Bytes(<<"\\", "b">>)
       ELSE IF c = 12 THEN Bytes(<<"\\", "f">>)
       ELSE IF c = 10 THEN Bytes(<<"\\", "n">>)
       ELSE IF c = 13 THEN Bytes(<<"\\", "r">>)
       ELSE IF c = 9 THEN Bytes(<<"\\", "t">>)
       ELSE Escape(c)
     ELSE IF c >= 65536 THEN
       Escape(55296 + ((c - 65536) \div 1024)) \o Escape(56320 + ((c - 65536) % 1024))
     ELSE encode_utf8(c)

write_escaped_char(c) ==
  IF c = 92 THEN Bytes(<<"\\", "\\">>)
  ELSE IF c = 34 THEN Bytes(<<"\\", "q">>)
  ELSE IF c < 32 THEN
    IF c = 8 THEN Bytes(<<"\\", "b">>)
    ELSE IF c = 12 THEN Bytes(<<"\\", "f">>)
    ELSE IF c = 10 THEN Bytes(<<"\\", "n">>)
    ELSE IF c = 13 THEN Bytes(<<"\\", "r">>)
    ELSE IF c = 9 THEN Bytes(<<"\\", "t">>)
    ELSE <<Ascii["\\"], Ascii["u"],
           HexDigit((c \div 4096) % 16), HexDigit((c \div 256) % 16),
           HexDigit((c \div 16) % 16), HexDigit(c % 16)>>
  ELSE encode_utf8(c)

RECURSIVE write_escaped_chars(_, _)
write_escaped_chars(s, i) ==
  IF i > Len(s) THEN <<>> ELSE write_escaped_char(s[i]) \o write_escaped_chars(s, i + 1)

write_escaped_json_string(s) ==
  <<Ascii["q"]>> \o write_escaped_chars(s, 1) \o <<Ascii["q"]>>

\* A faulty before_value that does not look at element_written.
before_value_any(writer) ==
  IF writer.state_stack = <<>>
    THEN Written([writer EXCEPT !.element_written = TRUE], <<>>, "")
  ELSE
  LET top == Top(writer.state_stack)
      popped == [writer EXCEPT !.state_stack = Pop(@)]
  IN CASE top = "OpenArray" ->
            Written([popped EXCEPT !.state_stack = Append(@, "ContinuationArray")], <<>>, "")
       [] top = "ContinuationArray" ->
            Written([popped EXCEPT !.state_stack = Append(@, "ContinuationArray")],
                    <<Ascii[","]>>, "")
       [] top \in {"OpenObject", "ContinuationObject"} ->
            Written([popped EXCEPT !.state_stack = Append(@, top)], <<>>,
                    "Object key expected, string found")
       [] top = "ObjectValue" -> Written(popped, <<>>, "")

before_value(writer) ==
  IF writer.state_stack = <<>> THEN
    IF writer.element_written
      THEN Written(writer, <<>>, "A root JSON value has already been written")
    ELSE Written([writer EXCEPT !.element_written = TRUE], <<>>, "")
  ELSE
  LET top == Top(writer.state_stack)
      popped == [writer EXCEPT !.state_stack = Pop(@)]
  IN CASE top = "OpenArray" ->
            Written([popped EXCEPT !.state_stack = Append(@, "ContinuationArray")], <<>>, "")
       [] top = "ContinuationArray" ->
            Written([popped EXCEPT !.state_stack = Append(@, "ContinuationArray")],
                    <<Ascii[","]>>, "")
       [] top \in {"OpenObject", "ContinuationObject"} ->
            Written([popped EXCEPT !.state_stack = Append(@, top)], <<>>,
                    "Object key expected, string found")
       [] top = "ObjectValue" -> Written(popped, <<>>, "")

\* The value arms: before_value()? and then the value's bytes.
serialize_value(writer, push, bytes) ==
  LET After(b) ==
        IF b.error # "" THEN b
        ELSE Written([b.writer EXCEPT !.state_stack = @ \o push], b.bytes \o bytes, "")
  IN After(before_value(writer))

\* A faulty End arm that does not push back the state it popped when it
\* rejects the event.
serialize_end_drop(writer, opened, closing, error) ==
  IF writer.state_stack = <<>> THEN Written(writer, <<>>, error)
  ELSE
  LET top == Top(writer.state_stack)
      popped == [writer EXCEPT !.state_stack = Pop(@)]
  IN IF top \in opened THEN Written(popped, <<closing>>, "")
     ELSE Written(popped, <<>>, error)

\* The EndArray / EndObject arms.
serialize_end(writer, opened, closing, error) ==
  IF writer.state_stack = <<>> THEN Written(writer, <<>>, error)
  ELSE
  LET top == Top(writer.state_stack)
      popped == [writer EXCEPT !.state_stack = Pop(@)]
  IN IF top \in opened THEN Written(popped, <<closing>>, "")
     ELSE Written([popped EXCEPT !.state_stack = Append(@, top)], <<>>, error)

\* A faulty ObjectKey arm that writes no ',' before a later key.
serialize_key_no_comma(writer, key) ==
  LET top == IF writer.state_stack = <<>> THEN "None" ELSE Top(writer.state_stack)
      popped == IF writer.state_stack = <<>> THEN writer
                ELSE [writer EXCEPT !.state_stack = Pop(@)]
      pushed == [popped EXCEPT !.state_stack = @ \o <<"ContinuationObject", "ObjectValue">>]
      text == write_escaped_json_string(key) \o <<Ascii[":"]>>
  IN IF top \in {"OpenObject", "ContinuationObject"} THEN Written(pushed, text, "")
     ELSE Written(popped, <<>>, "Trying to write an object key in an not object")

\* The ObjectKey arm.
serialize_key(writer, key) ==
  LET top == IF writer.state_stack = <<>> THEN "None" ELSE Top(writer.state_stack)
      popped == IF writer.state_stack = <<>> THEN writer
                ELSE [writer EXCEPT !.state_stack = Pop(@)]
      pushed == [popped EXCEPT !.state_stack = @ \o <<"ContinuationObject", "ObjectValue">>]
      text == write_escaped_json_string(key) \o <<Ascii[":"]>>
  IN IF top = "OpenObject" THEN Written(pushed, text, "")
     ELSE IF top = "ContinuationObject" THEN Written(pushed, <<Ascii[","]>> \o text, "")
     ELSE Written(popped, <<>>, "Trying to write an object key in an not object")

serialize_event(writer, event) ==
  LET k == event.kind
  IN CASE k = "String" -> serialize_value(writer, <<>>, write_escaped_json_string(event.val))
       [] k = "Number" -> serialize_value(writer, <<>>, event.val)
       [] k = "Boolean" ->
            serialize_value(writer, <<>>,
              IF event.val = <<1>> THEN Bytes(<<"t", "r", "u", "e">>)
              ELSE Bytes(<<"f", "a", "l", "s", "e">>))
       [] k = "Null" -> serialize_value(writer, <<>>, Bytes(<<"n", "u", "l", "l">>))
       [] k = "StartArray" -> serialize_value(writer, <<"OpenArray">>, <<Ascii["["]>>)
       [] k = "EndArray" ->
            serialize_end(writer, {"OpenArray", "ContinuationArray"}, Ascii["]"],
                          "Closing a not opened array")
       [] k = "StartObject" -> serialize_value(writer, <<"OpenObject">>, <<Ascii["{"]>>)
       [] k = "EndObject" ->
            serialize_end(writer, {"OpenObject", "ContinuationObject"}, Ascii["}"],
                          "Closing a not opened object")
       [] k = "ArrayIndex" -> Written(writer, <<>>, "")
       [] k = "ObjectKey" -> serialize_key(writer, event.val)
       [] k = "Eof" -> Written(writer, <<>>, "EOF is not allowed in JSON writer")

\* "" when finish() succeeds.
validate_eof(writer) ==
  IF writer.state_stack # <<>>
    THEN "The written JSON is not balanced: an object or an array has not been closed"
  ELSE IF ~writer.element_written THEN "A JSON file can't be empty"
  ELSE ""

(***************************************************************************)
(* FromBufferJsonReader: the whole input in one final buffer.              *)
(***************************************************************************)
\* FromBufferJsonReader::read_next_event: [reader, input_buffer, kind, event, error]
RECURSIVE FromBuffer_read_next_event(_, _)
FromBuffer_read_next_event(parser, input_buffer) ==
  LET Returned(r, rest) ==
        IF r.kind # "None"
          THEN [reader |-> r.reader, input_buffer |-> rest, kind |-> r.kind,
                event |-> r.event, error |-> r.error]
        ELSE FromBuffer_read_next_event(r.reader, rest)
      Consume(r) == Returned(r, SliceFrom(input_buffer, r.consumed_bytes))
  IN Consume(read_next_event(parser, input_buffer, TRUE))

Outcome(r) == [kind |-> r.kind, event |-> r.event, error |-> r.error]

\* The results of calling read_next_event until Eof is returned (the loop of
\* test_recovery and parse_buffer_result), at most `fuel` calls.
RECURSIVE ParseAll(_, _, _)
ParseAll(parser, input_buffer, fuel) ==
  IF fuel = 0 THEN <<[kind |-> "OutOfFuel", event |-> NoEvent, error |-> NoError]>>
  ELSE LET Collect(r) ==
             IF r.kind = "Event" /\ r.event.kind = "Eof" THEN <<Outcome(r)>>
             ELSE <<Outcome(r)>> \o ParseAll(r.reader, r.input_buffer, fuel - 1)
       IN Collect(FromBuffer_read_next_event(parser, input_buffer))

\* Enough calls for any input of that length: see CallBound.
Fuel(input_buffer) == (3 * Len(input_buffer)) + 4

(***************************************************************************)
(* The state: one parse of `input`, driven as parse_chunks of the fuzz     *)
(* target and the loop of test_recovery drive it (bytes are appended to    *)
(* the buffer chunk by chunk, the reader is called until it returns None,  *)
(* every event but Eof is forwarded to a serializer, Eof calls finish()),  *)
(* a serializer that can also be driven directly, and a                    *)
(* FromReadJsonReader with its input buffer.                               *)
(***************************************************************************)
VARIABLES
  input,          \* the whole byte string to parse
  reader,         \* LowLevelJsonReader
  input_cursor,   \* parse_chunks: bytes consumed so far
  avail,          \* parse_chunks: input_buffer.len(), the bytes appended so far
  is_ending,      \* the chunk appended last is the final one
  pc,             \* "chunk", "parse", "done", "panic"; "serialize" for the direct driver
  trace,          \* the results of read_next_event that were not None, in order
  split,          \* some call returned None and left bytes of a token unconsumed
  final_calls,    \* read_next_event calls made with is_ending = true
  writer,         \* LowLevelJsonSerializer
  output,         \* the bytes written
  wlog,           \* one entry per serialize_event call
  finished,       \* "unset", or the result of finish(): "" for Ok
  input_buffer,        \* FromReadJsonReader: the Vec<u8>, as long as its capacity
  input_buffer_start,  \* FromReadJsonReader: start of the window given to the parser
  input_buffer_end,    \* FromReadJsonReader: end of the bytes read from the source
  max_buffer_size      \* FromReadJsonReader: the configured maximal size

vars == <<input, reader, input_cursor, avail, is_ending, pc, trace, split, final_calls,
          writer, output, wlog, finished,
          input_buffer, input_buffer_start, input_buffer_end, max_buffer_size>>

\* The fields of FromReadJsonReader that the other drivers do not have.
adapter_vars == <<input_buffer, input_buffer_start, input_buffer_end, max_buffer_size>>

(***************************************************************************)
(* The inputs.  A family is a set of byte fragments; its inputs are the    *)
(* concatenations of at most MaxFragments of them.  ValidDocuments are     *)
(* built from the JSON grammar together with the events they stand for.    *)
(***************************************************************************)
\* Sequences of at most n elements of S.
RECURSIVE SeqUpTo(_, _)
SeqUpTo(S, n) ==
  IF n = 0 THEN {<<>>}
  ELSE LET shorter == SeqUpTo(S, n - 1)
       IN shorter \cup {Append(q, x) : q \in {r \in shorter : Len(r) = n - 1}, x \in S}

RECURSIVE Concat(_)
Concat(fragments) ==
  IF fragments = <<>> THEN <<>> ELSE Head(fragments) \o Concat(Tail(fragments))

MaxFragments == 3

Family(fragments) == {Concat(f) : f \in SeqUpTo(fragments, MaxFragments)}

StructureFragments ==
  {Bytes(<<"[">>), Bytes(<<"]">>), Bytes(<<"{">>), Bytes(<<"}">>), Bytes(<<",">>),
   Bytes(<<":">>), Bytes(<<"q", "a", "q">>)}

ObjectFragments ==
  {Bytes(<<"{", "q", "a", "q">>), Bytes(<<":", "1">>), Bytes(<<"}">>), Bytes(<<" ", "1">>),
   Bytes(<<"[", "1">>), Bytes(<<"]">>), Bytes(<<",">>)}

KeywordFragments ==
  {Bytes(<<"t">>), Bytes(<<"r", "u", "e">>), Bytes(<<"n", "u", "l">>), Bytes(<<"l">>),
   Bytes(<<"f", "a", "l", "s">>), Bytes(<<"]">>), Bytes(<<"[">>)}

NumberFragments ==
  {Bytes(<<"-">>), Bytes(<<"0">>), Bytes(<<"1">>), Bytes(<<".">>), Bytes(<<"E", "+", "1">>),
   Bytes(<<"e">>), Bytes(<<"E", "+">>)}

StringFragments ==
  {Bytes(<<"q">>), Bytes(<<"\\", "u", "0", "0", "0", "1">>),
   Bytes(<<"q", "\\", "u", "D", "8", "2", "2">>),
   Bytes(<<"\\", "u", "D", "C", "0", "1", "q">>), <<195, 169>>, <<195>>,
   Bytes(<<"\\">>)}

LineFragments ==
  {BOM, <<239, 187>>, Bytes(<<"CR">>), Bytes(<<"LF">>), Bytes(<<" ">>), Bytes(<<"}">>),
   Bytes(<<"1">>)}

\* A document and its events: [bytes, events].
Doc(bytes, events) == [bytes |-> bytes, events |-> events]

Scalars ==
  {Doc(Bytes(<<"1">>), <<Event("Number", Bytes(<<"1">>))>>),
   Doc(Bytes(<<"q", "a", "q">>), <<Event("String", Bytes(<<"a">>))>>),
   Doc(Bytes(<<"t", "r", "u", "e">>), <<Event("Boolean", <<1>>)>>),
   Doc(Bytes(<<"n", "u", "l", "l">>), <<Event("Null", <<>>)>>)}

KeyA == Doc(Bytes(<<"q", "a", "q", ":">>), <<Event("ObjectKey", Bytes(<<"a">>))>>)
KeyB == Doc(Bytes(<<"q", "b", "q", ":", " ">>), <<Event("ObjectKey", Bytes(<<"b">>))>>)

Seq2(a, b) == Doc(a.bytes \o b.bytes, a.events \o b.events)
Punct(c) == Doc(<<Ascii[c]>>, <<>>)
Mark(c, kind) == Doc(<<Ascii[c]>>, <<Event(kind, <<>>)>>)
ArrayOf(body) == Seq2(Mark("[", "StartArray"), Seq2(body, Mark("]", "EndArray")))
ObjectOf(body) == Seq2(Mark("{", "StartObject"), Seq2(body, Mark("}", "EndObject")))

\* value = scalar | [] | [value] | [scalar,scalar] | {} | {"a":value}
\*       | {"a":scalar,"b": scalar}, nested at most `depth` deep.
RECURSIVE Values(_)
Values(depth) ==
  IF depth = 0 THEN Scalars
  ELSE LET inner == Values(depth - 1)
       IN Scalars
          \cup {ArrayOf(Doc(<<>>, <<>>)), ObjectOf(Doc(<<>>, <<>>))}
          \cup {ArrayOf(v) : v \in inner}
          \cup {ObjectOf(Seq2(KeyA, v)) : v \in inner}
          \cup {ArrayOf(Seq2(v, Seq2(Punct(","), w))) : v \in Scalars, w \in Scalars}
          \cup {ObjectOf(Seq2(Seq2(KeyA, v), Seq2(Punct(","), Seq2(KeyB, w)))) :
                  v \in Scalars, w \in Scalars}

MaxDepth == 2

\* The values, bare, and with a BOM and white space around them.
ValidDocuments ==
  Values(MaxDepth)
  \cup {Seq2(Doc(BOM \o Bytes(<<" ", "LF">>), <<>>), Seq2(v, Doc(Bytes(<<"CR", "LF">>), <<>>))) :
          v \in Values(1)}

InputSet ==
  Family(StructureFragments) \cup Family(ObjectFragments) \cup Family(KeywordFragments)
  \cup Family(NumberFragments) \cup Family(StringFragments) \cup Family(LineFragments)
  \cup {d.bytes : d \in ValidDocuments}

InitWith(inputs, readers) ==
  /\ input \in inputs
  /\ reader \in readers
  /\ input_cursor = 0
  /\ avail = 0
  /\ is_ending = FALSE
  /\ pc = "chunk"
  /\ trace = <<>>
  /\ split = FALSE
  /\ final_calls = 0
  /\ writer = NewSerializer
  /\ output = <<>>
  /\ wlog = <<>>
  /\ finished = "unset"
  /\ input_buffer = <<>>
  /\ input_buffer_start = 0
  /\ input_buffer_end = 0
  /\ max_buffer_size = 0

Init == InitWith(InputSet, {NewReader})

\* for (i, chunk) in chunks: input_buffer.extend_from_slice(chunk).  The
\* last chunk holds all the remaining bytes and may be empty.
NextChunk ==
  /\ pc = "chunk"
  /\ ~is_ending
  /\ \E k \in avail..Len(input) :
       /\ (k = avail) => (k = Len(input))
       /\ avail' = k
       /\ is_ending' = (k = Len(input))
  /\ pc' = "parse"
  /\ UNCHANGED <<input, reader, input_cursor, trace, split, final_calls, writer, output,
                 wlog, finished>>
  /\ UNCHANGED adapter_vars

LogEntry(w, event, r) ==
  [event |-> event, error |-> r.error, bytes |-> r.bytes, stack |-> w.state_stack,
   element_written |-> w.element_written]

\* More calls than any parse of the input needs once the buffer is final.
CallBound(bytes) == Fuel(bytes)

\* One iteration of the loop: read_next_event, then the match on its result.
ParseStep ==
  /\ pc = "parse"
  /\ final_calls <= CallBound(input)
  /\ LET \* r = the result of read_next_event, w = serialize_event on its event.
         Matched(r, w) ==
           /\ reader' = r.reader
           /\ input_cursor' = input_cursor + r.consumed_bytes
           /\ final_calls' = IF is_ending THEN final_calls + 1 ELSE final_calls
           /\ trace' = IF r.kind = "None" THEN trace
                       ELSE Append(trace, [kind |-> r.kind, event |-> r.event,
                                           error |-> r.error,
                                           consumed_bytes |-> r.consumed_bytes])
           /\ split' = (split \/ (r.kind = "None" /\ input_cursor' < avail))
           /\ IF r.kind = "None" THEN
                /\ pc' = IF is_ending THEN "panic" ELSE "chunk"
                /\ UNCHANGED <<writer, output, wlog, finished>>
              ELSE IF r.kind = "Error" THEN
                /\ pc' = "parse"
                /\ UNCHANGED <<writer, output, wlog, finished>>
              ELSE IF r.event.kind = "Eof" THEN
                /\ pc' = "done"
                /\ finished' = validate_eof(writer)
                /\ UNCHANGED <<writer, output, wlog>>
              ELSE
                /\ pc' = "parse"
                /\ writer' = w.writer
                /\ output' = output \o w.bytes
                /\ wlog' = Append(wlog, LogEntry(writer, r.event, w))
                /\ UNCHANGED finished
         Returned(r) == Matched(r, serialize_event(writer, r.event))
     IN Returned(read_next_event(reader, Slice(input, input_cursor, avail), is_ending))
  /\ UNCHANGED <<input, avail, is_ending>>
  /\ UNCHANGED adapter_vars

Next == NextChunk \/ ParseStep

Spec == Init /\ [][Next]_vars

(***************************************************************************)
(* The same driver over readers built with with_max_stack_size(n) and      *)
(* inputs that nest.                                                       *)
(***************************************************************************)
MaxStackSize == 2

NestFragments ==
  {Bytes(<<"[">>), Bytes(<<"[", "[">>), Bytes(<<"]">>), Bytes(<<"]", "]">>),
   Bytes(<<"{", "q", "a", "q", ":">>), Bytes(<<"}">>), Bytes(<<"1">>), Bytes(<<",">>)}

InitStack ==
  InitWith(Family(NestFragments),
           {with_max_stack_size(NewReader, n) : n \in 0..MaxStackSize})

SpecStack == InitStack /\ [][Next]_vars

(***************************************************************************)
(* The serializer driven directly: any sequence of at most MaxCalls        *)
(* serialize_event calls, then finish().                                   *)
(***************************************************************************)
MaxCalls == 4

SerializerEvents ==
  {Event("String", Bytes(<<"a">>)), Event("Number", Bytes(<<"1">>)), Event("Null", <<>>),
   Event("StartArray", <<>>), Event("EndArray", <<>>), Event("StartObject", <<>>),
   Event("EndObject", <<>>), Event("ObjectKey", Bytes(<<"a">>)), Event("ArrayIndex", <<>>),
   Event("Eof", <<>>)}

InitSerializer ==
  /\ input = <<>>
  /\ reader = NewReader
  /\ input_cursor = 0
  /\ avail = 0
  /\ is_ending = FALSE
  /\ pc = "serialize"
  /\ trace = <<>>
  /\ split = FALSE
  /\ final_calls = 0
  /\ writer = NewSerializer
  /\ output = <<>>
  /\ wlog = <<>>
  /\ finished = "unset"
  /\ input_buffer = <<>>
  /\ input_buffer_start = 0
  /\ input_buffer_end = 0
  /\ max_buffer_size = 0

SerializeEvent(event) ==
  /\ pc = "serialize"
  /\ Len(wlog) < MaxCalls
  /\ LET Serialized(w) ==
           /\ writer' = w.writer
           /\ output' = output \o w.bytes
           /\ wlog' = Append(wlog, LogEntry(writer, event, w))
     IN Serialized(serialize_event(writer, event))
  /\ UNCHANGED <<input, reader, input_cursor, avail, is_ending, pc, trace, split,
                 final_calls, finished>>
  /\ UNCHANGED adapter_vars

\* WriterJsonSerializer::finish
Finish ==
  /\ pc = "serialize"
  /\ finished' = validate_eof(writer)
  /\ pc' = "done"
  /\ UNCHANGED <<input, reader, input_cursor, avail, is_ending, trace, split, final_calls,
                 writer, output, wlog>>
  /\ UNCHANGED adapter_vars

NextSerializer == (\E event \in SerializerEvents : SerializeEvent(event)) \/ Finish

SpecSerializer == InitSerializer /\ [][NextSerializer]_vars

(***************************************************************************)
(* FromReadJsonReader over a source that holds `input`.  input_cursor is   *)
(* the number of bytes the source has given so far.  The Vec is resized to *)
(* its capacity before every read, so its length stands for both.          *)
(***************************************************************************)
MIN_BUFFER_SIZE == 4096

MaxBufferSize == 3

\* What Vec::resize may allocate beyond the length asked for.
MaxSlack == 1

\* The sources read: the pieces of objects, arrays and keywords, and blanks.
ReadInputs ==
  Family(ObjectFragments) \cup Family(KeywordFragments) \cup Family(LineFragments)

\* FromReadJsonReader::new(read).with_max_buffer_size(size)
InitRead ==
  /\ input \in ReadInputs
  /\ reader = NewReader
  /\ input_cursor = 0
  /\ avail = 0
  /\ is_ending = FALSE
  /\ pc = "read"
  /\ trace = <<>>
  /\ split = FALSE
  /\ final_calls = 0
  /\ writer = NewSerializer
  /\ output = <<>>
  /\ wlog = <<>>
  /\ finished = "unset"
  /\ input_buffer = <<>>
  /\ input_buffer_start = 0
  /\ input_buffer_end = 0
  /\ max_buffer_size \in 1..MaxBufferSize

\* The window of the buffer given to the parser.
Window == Slice(input_buffer, input_buffer_start, input_buffer_end)

\* input_buffer.copy_within(start..input_buffer_end, 0)
copy_within(buffer, start, end) ==
  IF start > 0 THEN Slice(buffer, start, end) \o SliceFrom(buffer, end - start)
  ELSE buffer

\* The capacities the Vec can have after the two resize calls: its length
\* when it is long enough, else min_end or more.
Capacities(len, min_end) ==
  IF len < min_end THEN min_end..(min_end + MaxSlack) ELSE {len}

\* What self.read.read(buf) can return: 0 when buf is empty or the source is
\* at its end, else at least one byte and at most what fits.
ReadSizes(free, remaining) ==
  IF free = 0 \/ remaining = 0 THEN {0} ELSE 1..Min(free, remaining)

\* The buffer of the given capacity after the read of n bytes at offset end.
Refilled(buffer, capacity, end, n) ==
  [i \in 1..capacity |->
     IF i > end /\ i <= end + n THEN input[input_cursor + (i - end)]
     ELSE IF i <= Len(buffer) THEN buffer[i]
     ELSE 0]

OutOfMemory ==
  [kind |-> "IoError", event |-> NoEvent,
   error |-> [NoError EXCEPT !.message = "Reached the buffer maximal size of {}",
                             !.arg = <<max_buffer_size>>],
   consumed_bytes |-> 0]

\* One iteration of the loop of FromReadJsonReader::read_next_event: the
\* call of the parser, then either the return of its result, or the
\* compaction, the size check, the growth and the read.
FromRead_read_next_event ==
  /\ pc = "read"
  /\ LET Iteration(r, start) ==
           /\ reader' = r.reader
           /\ IF r.kind # "None" THEN
                /\ input_buffer_start' = start
                /\ trace' = Append(trace, [kind |-> r.kind, event |-> r.event,
                                           error |-> r.error,
                                           consumed_bytes |-> r.consumed_bytes])
                /\ pc' = IF r.kind = "Event" /\ r.event.kind = "Eof" THEN "done" ELSE "read"
                /\ UNCHANGED <<input_buffer, input_buffer_end, is_ending, input_cursor>>
              ELSE
                LET compacted == copy_within(input_buffer, start, input_buffer_end)
                    end == input_buffer_end - start
                IN /\ input_buffer_start' = 0
                   /\ IF Len(compacted) = max_buffer_size THEN
                        /\ input_buffer' = compacted
                        /\ input_buffer_end' = end
                        /\ trace' = Append(trace, OutOfMemory)
                        /\ pc' = "failed"
                        /\ UNCHANGED <<is_ending, input_cursor>>
                      ELSE
                        \E capacity \in Capacities(Len(compacted),
                                         Min(end + MIN_BUFFER_SIZE, max_buffer_size)) :
                          \E n \in ReadSizes(capacity - end, Len(input) - input_cursor) :
                            /\ input_buffer' = Refilled(compacted, capacity, end, n)
                            /\ input_buffer_end' = end + n
                            /\ is_ending' = (n = 0)
                            /\ input_cursor' = input_cursor + n
                            /\ pc' = "read"
                            /\ UNCHANGED trace
         Returned(r) == Iteration(r, input_buffer_start + r.consumed_bytes)
     IN Returned(read_next_event(reader, Window, is_ending))
  /\ UNCHANGED <<input, avail, split, final_calls, writer, output, wlog, finished,
                 max_buffer_size>>

NextRead == FromRead_read_next_event

SpecRead == InitRead /\ [][NextRead]_vars

(***************************************************************************)
(* The drain of the next value.  A parser over a valid document given as   *)
(* one final buffer; the caller takes the events one by one with           *)
(* parse_next and may, right after an ObjectKey, drain the value of the    *)
(* key.  The trace holds what the caller was returned: the events, and for *)
(* a drain an entry of kind "Drained" with the events the drain consumed.  *)
(***************************************************************************)
\* The events consumed from the parser until its stack is back to `depth`,
\* with the parser and the buffer they leave: [reader, input_buffer, events].
\* An error or Eof ends the drain.
RECURSIVE drain_events(_, _, _, _)
drain_events(parser, buffer, depth, events) ==
  LET Taken(r) ==
        IF r.kind # "Event" \/ r.event.kind = "Eof"
          THEN [reader |-> r.reader, input_buffer |-> r.input_buffer,
                events |-> Append(events, Outcome(r))]
        ELSE IF Len(r.reader.state_stack) <= depth
          THEN [reader |-> r.reader, input_buffer |-> r.input_buffer,
                events |-> Append(events, Outcome(r))]
        ELSE drain_events(r.reader, r.input_buffer, depth, Append(events, Outcome(r)))
  IN Taken(FromBuffer_read_next_event(parser, buffer))

\* A faulty drain that stops after the first event.
drain_first_event(parser, buffer) ==
  LET Taken(r) == [reader |-> r.reader, input_buffer |-> r.input_buffer,
                   events |-> <<Outcome(r)>>]
  IN Taken(FromBuffer_read_next_event(parser, buffer))

\* The events of the next value: the stream is advanced until the stack is
\* back to the depth it has now.
drain_next_value(parser, buffer) ==
  drain_events(parser, buffer, Len(parser.state_stack), <<>>)

\* The events written to a fresh serializer: [writer, bytes].
RECURSIVE serialize_events(_, _, _, _)
serialize_events(w, bytes, events, i) ==
  IF i > Len(events) \/ events[i].kind # "Event" THEN [writer |-> w, bytes |-> bytes]
  ELSE LET Wrote(r) == serialize_events(r.writer, bytes \o r.bytes, events, i + 1)
       IN Wrote(serialize_event(w, events[i].event))

InitDrain ==
  /\ input \in {d.bytes : d \in ValidDocuments}
  /\ reader = NewReader
  /\ input_cursor = 0
  /\ avail = Len(input)
  /\ is_ending = TRUE
  /\ pc = "events"
  /\ trace = <<>>
  /\ split = FALSE
  /\ final_calls = 0
  /\ writer = NewSerializer
  /\ output = <<>>
  /\ wlog = <<>>
  /\ finished = "unset"
  /\ input_buffer = <<>>
  /\ input_buffer_start = 0
  /\ input_buffer_end = 0
  /\ max_buffer_size = 0

\* parse_next: the next event or error of the parser.
parse_next ==
  /\ pc = "events"
  /\ LET Returned(r) ==
           /\ reader' = r.reader
           /\ input_cursor' = Len(input) - Len(r.input_buffer)
           /\ trace' = Append(trace, [kind |-> r.kind, event |-> r.event, error |-> r.error,
                                      drained |-> <<>>])
           /\ pc' = IF r.kind = "Event" /\ r.event.kind = "Eof" THEN "done" ELSE "events"
     IN Returned(FromBuffer_read_next_event(reader, SliceFrom(input, input_cursor)))
  /\ UNCHANGED <<input, avail, is_ending, split, final_calls, writer, output, wlog, finished>>
  /\ UNCHANGED adapter_vars

\* drain_next_value_as_string, called right after an ObjectKey event.
drain_next_value_as_string ==
  /\ pc = "events"
  /\ trace # <<>>
  /\ trace[Len(trace)].event.kind = "ObjectKey"
  /\ LET Written_(d, w) ==
           /\ reader' = d.reader
           /\ input_cursor' = Len(input) - Len(d.input_buffer)
           /\ trace' = Append(trace, [kind |-> "Drained", event |-> NoEvent, error |-> NoError,
                                      drained |-> d.events])
           /\ writer' = w.writer
           /\ output' = w.bytes
           /\ pc' = IF d.events[Len(d.events)].event.kind = "Eof" THEN "done" ELSE "events"
         Drained(d) == Written_(d, serialize_events(NewSerializer, <<>>, d.events, 1))
     IN Drained(drain_next_value(reader, SliceFrom(input, input_cursor)))
  /\ UNCHANGED <<input, avail, is_ending, split, final_calls, wlog, finished>>
  /\ UNCHANGED adapter_vars

NextDrain == parse_next \/ drain_next_value_as_string

SpecDrain == InitDrain /\ [][NextDrain]_vars

(***************************************************************************)
(* Properties.                                                             *)
(***************************************************************************)
\* What the caller sees of a parse: the events and the errors, in order.
Results(t) ==
  [i \in DOMAIN t |-> [kind |-> t[i].kind, event |-> t[i].event, error |-> t[i].error]]

\* The reader as it was built: a new one with the configured limit.
InitialReader == with_max_stack_size(NewReader, reader.max_state_stack_size)

NoSyntaxError == \A i \in DOMAIN trace : trace[i].kind # "Error"
NoSerializerError == \A i \in DOMAIN wlog : wlog[i].error = ""
EofEvent == Event("Eof", <<>>)

\* C1: when the parse of the chunked input has returned Eof, the events and
\* the syntax errors (message, values and position) it returned are those
\* of the parse of the whole input given as one final buffer.
C1_ChunksAsWhole ==
  pc = "done" => Results(trace) = ParseAll(InitialReader, input, Fuel(input))

\* C1 witness: a finished parse in which a call returned None in the middle
\* of a token, and that returned events and an error.
C1_Witness ==
  /\ pc = "done"
  /\ split
  /\ Len(trace) >= 4
  /\ \E i \in DOMAIN trace : trace[i].kind = "Error"

GrammarErrors ==
  {"Unexpected closing square bracket, no array to close",
   "Unexpected closing curly bracket, no array to close",
   "Unexpected comma, no values to separate",
   "Unexpected colon, no key to follow",
   "Unexpected end of file, a value was expected",
   "Trailing commas are not allowed",
   "Object keys must be strings",
   "Object values must be followed by a comma to add a new value or a curly bracket to end the object",
   "Array values must be followed by a comma to add a new value or a squared bracket to end the array",
   "The JSON already contains one root element",
   "Max stack size of {} reached on an object opening"}

MissingSeparator ==
  {"Object keys must be strings",
   "Array values must be followed by a comma to add a new value or a squared bracket to end the array"}

\* The i-th result is an error the event stream recovers from: a lexer
\* error that drops one token, a trailing comma, or a missing ':' or ','
\* whose token gave an event that the next call returns from the buffer.
Recoverable(i) ==
  LET m == trace[i].error.message
  IN \/ m \notin (GrammarErrors \cup {"Unexpected end of file"})
     \/ m = "Trailing commas are not allowed"
     \/ /\ m \in MissingSeparator
        /\ i < Len(trace)
        /\ trace[i + 1].kind = "Event"
        /\ trace[i + 1].consumed_bytes = 0
        /\ trace[i + 1].event # EofEvent

C3_RoundTrip ==
  (pc = "done" /\ NoSyntaxError)
    => /\ NoSerializerError
       /\ finished = ""
       /\ ParseAll(InitialReader, output, Fuel(output)) = Results(trace)

\* C3 witness: an error-free parse of a string value whose serialization
\* differs from the input.
C3_Witness ==
  /\ pc = "done"
  /\ NoSyntaxError
  /\ output # input
  /\ \E i \in DOMAIN trace : trace[i].event.kind = "String" /\ trace[i].event.val # <<>>

\* C4: a call made with is_ending = true never returns None, at most
\* CallBound(input) such calls are made, and the last of them returns Eof.
C4_EofWithinBound ==
  /\ pc # "panic"
  /\ final_calls <= CallBound(input)
  /\ (pc = "chunk" => ~is_ending)
  /\ (pc = "done" => trace # <<>> /\ trace[Len(trace)].kind = "Event"
                     /\ trace[Len(trace)].event = EofEvent)

\* C4 witness: Eof returned with frames left on the grammar stack, after
\* several calls on the final buffer, one of which returned an error.
C4_Witness ==
  /\ pc = "done"
  /\ final_calls >= 3
  /\ reader.state_stack # <<>>
  /\ \E i \in DOMAIN trace : trace[i].kind = "Error"

\* C5 as stated: the grammar state stack is never longer than
\* max_state_stack_size.
C5_StackWithinLimit == Len(reader.state_stack) <= reader.max_state_stack_size

\* k nested arrays: k opening brackets, then k closing ones.
RECURSIVE NestedArrays(_)
NestedArrays(k) ==
  IF k = 0 THEN <<>> ELSE <<Ascii["["]>> \o NestedArrays(k - 1) \o <<Ascii["]"]>>

\* C6 as stated: with limit N, k <= N nested arrays parse with no error,
\* and of N + 1 nested arrays the (N + 1)-th opening bracket is the token
\* the 'Max stack size' error is reported at.
C6_ErrorAtBracketAfterLimit ==
  pc = "done" =>
    \A k \in 1..(MaxStackSize + 1) :
      input = NestedArrays(k) =>
        LET N == reader.max_state_stack_size
        IN /\ (k <= N => NoSyntaxError)
           /\ (k = N + 1 =>
                 /\ \A i \in 1..N : trace[i].kind = "Event"
                 /\ trace[N + 1].kind = "Error"
                 /\ trace[N + 1].error.message
                      = "Max stack size of {} reached on an object opening"
                 /\ trace[N + 1].error.start.offset = N)

\* C7: the parse of a valid document returns no error and exactly the
\* events of its grammar, in order, then Eof.
C7_EventsOfValidDocument ==
  pc = "done" =>
    \A d \in ValidDocuments :
      input = d.bytes =>
        /\ NoSyntaxError
        /\ [i \in DOMAIN trace |-> trace[i].event] = d.events \o <<EofEvent>>

\* C7 witness: the finished parse, in several chunks, of a valid document
\* with an object key, a nested array and punctuation.
C7_Witness ==
  /\ pc = "done"
  /\ split
  /\ input \in {d.bytes : d \in ValidDocuments}
  /\ \E i \in DOMAIN trace : trace[i].event.kind = "ObjectKey"
  /\ \E i \in DOMAIN trace : trace[i].event.kind = "EndArray"
  /\ \E i \in DOMAIN input : input[i] = Ascii[","]

\* C8: a call adds at most one result; an event is put in the buffer only by
\* a call that returns an error; and while an event is buffered the next
\* call returns exactly it, with consumed_bytes = 0, leaves the lexer and
\* the input alone, and empties the buffer.
C8_BufferedEventNext ==
  [][/\ Len(trace') <= Len(trace) + 1
     /\ (reader'.buffered_event # NoEvent =>
           /\ reader.buffered_event = NoEvent
           /\ Len(trace') = Len(trace) + 1
           /\ trace'[Len(trace')].kind = "Error")
     /\ (reader.buffered_event # NoEvent =>
           /\ trace' = Append(trace, [kind |-> "Event", event |-> reader.buffered_event,
                                      error |-> NoError, consumed_bytes |-> 0])
           /\ reader' = [reader EXCEPT !.buffered_event = NoEvent]
           /\ input_cursor' = input_cursor)]_vars

\* C8 witness: a call has just returned, with consumed_bytes = 0, the
\* non-Eof event buffered by the call before it, which returned an error.
C8_Witness ==
  /\ Len(trace) >= 2
  /\ reader.buffered_event = NoEvent
  /\ trace[Len(trace) - 1].kind = "Error"
  /\ trace[Len(trace)].kind = "Event"
  /\ trace[Len(trace)].consumed_bytes = 0
  /\ trace[Len(trace)].event # EofEvent

\* C9 as stated: finish() succeeds only if the bytes written are one
\* complete root value, that is, they parse with no syntax error.
C9_FinishOnlyIfBalanced ==
  (pc = "done" /\ finished = "")
    => \A i \in DOMAIN ParseAll(NewReader, output, Fuel(output)) :
         ParseAll(NewReader, output, Fuel(output))[i].kind = "Event"

ValueEvents == {"String", "Number", "Boolean", "Null", "StartArray", "StartObject"}

\* The i-th call passed a value event to a serializer whose stack was empty.
RootValue(i) == wlog[i].event.kind \in ValueEvents /\ wlog[i].stack = <<>>

\* C10: of the value events that arrive with an empty stack, the first is
\* accepted, and every later one is rejected with 'A root JSON value has
\* already been written' and writes nothing.
C10_OneRootValue ==
  \A i \in DOMAIN wlog :
    RootValue(i) =>
      IF \E j \in 1..(i - 1) : RootValue(j)
        THEN /\ wlog[i].error = "A root JSON value has already been written"
             /\ wlog[i].bytes = <<>>
      ELSE wlog[i].error = "" /\ wlog[i].bytes # <<>>

\* C10 witness: a root array was written and closed, and a later value
\* event arrived with the stack empty again.
C10_Witness ==
  \E i, j \in DOMAIN wlog :
    /\ i < j
    /\ RootValue(i)
    /\ wlog[i].event.kind = "StartArray"
    /\ RootValue(j)

\* The i-th call was accepted: it returned Ok.
Accepted(i) == wlog[i].error = ""

\* C11 as stated: keys and values are accepted in strict alternation, so
\* between two accepted ObjectKey events there is always an accepted value
\* event (the value of the first key, or the Start of a nested container).
C11_StrictAlternation ==
  \A i, j \in DOMAIN wlog :
    (/\ i < j
     /\ Accepted(i) /\ wlog[i].event.kind = "ObjectKey"
     /\ Accepted(j) /\ wlog[j].event.kind = "ObjectKey")
      => \E k \in (i + 1)..(j - 1) : Accepted(k) /\ wlog[k].event.kind \in ValueEvents

\* The last call before the i-th that was not an ArrayIndex (which writes
\* nothing and changes no state), 0 if there is none.
PrevCall(i) ==
  LET before == {j \in 1..(i - 1) : wlog[j].event.kind # "ArrayIndex"}
  IN IF before = {} THEN 0 ELSE CHOOSE j \in before : \A k \in before : k <= j

\* In an accepted sequence, the i-th event is an array element or an object
\* key that is not the first of its container: it follows a complete value,
\* that is, a scalar or the End of a nested container.
NotFirst(i) ==
  /\ wlog[i].event.kind \in ValueEvents \union {"ObjectKey"}
  /\ PrevCall(i) # 0
  /\ wlog[PrevCall(i)].event.kind
       \in {"String", "Number", "Boolean", "Null", "EndArray", "EndObject"}

RECURSIVE CountByte(_, _)
CountByte(bytes, c) ==
  IF bytes = <<>> THEN 0
  ELSE (IF Head(bytes) = c THEN 1 ELSE 0) + CountByte(Tail(bytes), c)

\* C12: when every call so far was accepted, the bytes written by a call
\* hold one ',' and start with it if the event is an element or a key that
\* is not the first of its container, and hold no ',' otherwise (first
\* element or key, value after its key, End event, root value).
C12_CommaBeforeNotFirst ==
  NoSerializerError =>
    \A i \in DOMAIN wlog :
      IF NotFirst(i)
        THEN /\ CountByte(wlog[i].bytes, Ascii[","]) = 1
             /\ Head(wlog[i].bytes) = Ascii[","]
      ELSE CountByte(wlog[i].bytes, Ascii[","]) = 0

\* C12 witness: an accepted sequence in which a second key was written in
\* an object.
C12_Witness ==
  /\ NoSerializerError
  /\ \E i \in DOMAIN wlog : NotFirst(i) /\ wlog[i].event.kind = "ObjectKey"

Whitespace == {Ascii[" "], Ascii["TAB"], Ascii["LF"], Ascii["CR"]}

\* The input holds nothing but an optional leading BOM and whitespace.
Blank(inp) ==
  LET rest == IF starts_with(inp, BOM) THEN SliceFrom(inp, 3) ELSE inp
  IN \A i \in DOMAIN rest : rest[i] \in Whitespace

\* The TextPosition of the end of a blank input: one line per LF, CR or
\* CR LF, the column in bytes from the start of the last line, and the BOM
\* counted as three bytes of the first line.
RECURSIVE EndPosition(_, _, _, _)
EndPosition(inp, i, line, start) ==
  IF i >= Len(inp) THEN [line |-> line, column |-> Len(inp) - start, offset |-> Len(inp)]
  ELSE IF inp[i + 1] = Ascii["LF"] THEN EndPosition(inp, i + 1, line + 1, i + 1)
  ELSE IF inp[i + 1] = Ascii["CR"] THEN
    IF i + 2 <= Len(inp) /\ inp[i + 2] = Ascii["LF"]
      THEN EndPosition(inp, i + 2, line + 1, i + 2)
    ELSE EndPosition(inp, i + 1, line + 1, i + 1)
  ELSE EndPosition(inp, i + 1, line, start)

\* The parse returned the end-of-file error at position pos and then Eof.
EofErrorThenEof(pos) ==
  /\ Len(trace) = 2
  /\ trace[1].kind = "Error"
  /\ trace[1].error.message = "Unexpected end of file, a value was expected"
  /\ trace[1].error.start = pos
  /\ trace[1].error.end = pos
  /\ trace[2].kind = "Event"
  /\ trace[2].event = EofEvent

RECURSIVE MeetsEnd(_, _)
MeetsEnd(rd, buf) ==
  LET Taken(a, rest) == a.error = NoMessage /\ a.event = NoEvent /\ MeetsEnd(a.reader, rest)
      Lexed(r) ==
        IF r.kind = "None" THEN TRUE
        ELSE IF r.kind = "Error" THEN FALSE
        ELSE IF r.token.t = "Eof" THEN TRUE
        ELSE Taken(apply_new_token([rd EXCEPT !.lexer = r.lexer], r.token),
                   SliceFrom(buf, r.lexer.file_offset - rd.lexer.file_offset))
  IN Lexed(read_next_token(rd.lexer, buf, TRUE))

\* The next call meets the end of the final input with a container open.
AtEndWithOpenContainer ==
  /\ pc = "parse"
  /\ is_ending
  /\ reader.buffered_event = NoEvent
  /\ reader.state_stack # <<>>
  /\ MeetsEnd(reader, Slice(input, input_cursor, avail))

\* C14 as stated: the call that meets the end of the final input with a
\* non-empty grammar stack returns an 'Unexpected end of file' syntax error,
\* and the call right after it returns Eof.
C14_EndOfInputErrorThenEof ==
  AtEndWithOpenContainer =>
    LET Second(r) == r.kind = "Event" /\ r.event = EofEvent
        First(r) ==
          /\ r.kind = "Error"
          /\ r.error.message \in {"Unexpected end of file",
                                  "Unexpected end of file, a value was expected"}
          /\ Second(read_next_event(r.reader,
                      SliceFrom(Slice(input, input_cursor, avail), r.consumed_bytes), TRUE))
    IN First(read_next_event(reader, Slice(input, input_cursor, avail), TRUE))

\* The bytes the next call of read_next_event is given.
Unread == Slice(input, input_cursor, avail)

\* The root value is complete and no event is waiting in the buffer.
RootComplete ==
  /\ pc = "parse"
  /\ reader.state_stack = <<>>
  /\ reader.element_read
  /\ reader.buffered_event = NoEvent

\* The number of containers the events of t[1..n] have opened and not closed.
RECURSIVE Depth(_, _)
Depth(t, n) ==
  IF n = 0 THEN 0
  ELSE Depth(t, n - 1)
       + (IF t[n].event.kind \in {"StartArray", "StartObject"} THEN 1
          ELSE IF t[n].event.kind \in {"EndArray", "EndObject"} THEN -1
          ELSE 0)

\* The i-th result is a value event outside of every container.
RootValueEvent(i) == trace[i].event.kind \in ValueEvents /\ Depth(trace, i - 1) = 0

\* C15: once the root value is complete, a further token other than Eof
\* makes the call return the error 'The JSON already contains one root
\* element' and leaves no event to return, and the Eof token makes it return
\* Eof with no error; the parse returns at most one root value event.
C15_SingleRoot ==
  /\ RootComplete =>
       LET Call(r, token) ==
             IF token.t = "Eof" THEN r.kind = "Event" /\ r.event = EofEvent
             ELSE /\ r.kind = "Error"
                  /\ r.error.message = "The JSON already contains one root element"
                  /\ r.reader.buffered_event = NoEvent
                  /\ r.reader.state_stack = <<>>
           Lexed(l) == l.kind = "Token" => Call(read_next_event(reader, Unread, is_ending), l.token)
       IN Lexed(read_next_token(reader.lexer, Unread, is_ending))
  /\ Cardinality({i \in DOMAIN trace : RootValueEvent(i)}) <= 1

\* C15 witness: a root value was returned, the root is complete and the
\* next token opens an array.
C15_Witness ==
  /\ RootComplete
  /\ \E i \in DOMAIN trace : RootValueEvent(i)
  /\ read_next_token(reader.lexer, Unread, is_ending).token.t = "OpeningSquareBracket"

\* C18 as stated: the input buffer is never longer than max_buffer_size, and
\* 0 <= input_buffer_start <= input_buffer_end <= its length.
C18_BufferWithinMax ==
  /\ Len(input_buffer) <= max_buffer_size
  /\ 0 <= input_buffer_start
  /\ input_buffer_start <= input_buffer_end
  /\ input_buffer_end <= Len(input_buffer)

\* C17 as stated: when the parser returns no event and the input buffer has
\* already reached max_buffer_size, the call returns the OutOfMemory error
\* 'Reached the buffer maximal size' and reads nothing more from the source.
C17_ErrorWhenBufferAtMax ==
  [][(/\ pc = "read"
      /\ Len(input_buffer) >= max_buffer_size
      /\ read_next_event(reader, Window, is_ending).kind = "None")
       => (/\ pc' = "failed"
           /\ trace' = Append(trace, OutOfMemory)
           /\ input_cursor' = input_cursor)]_vars

\* C16 as stated: when FromReadJsonReader has returned Eof without hitting
\* the buffer size error, the events and syntax errors it returned are those
\* FromBufferJsonReader returns over the whole input, whatever the sizes of
\* the reads were.
C16_FromReadAsFromBuffer ==
  pc = "done" => Results(trace) = ParseAll(NewReader, input, Fuel(input))

\* The lexer looks at the bytes it is given: it is past the wait for the
\* three bytes that may hold a BOM.
LexerScans(rd, buf, ending) == ~(rd.lexer.is_start /\ Len(buf) < 3 /\ ~ending)

\* C19 as stated: no byte is scanned again on a later call, so a call in
\* which the lexer has scanned bytes and asks for more input (None) has
\* consumed all the bytes it was given: the next call starts after them.
C19_NoByteScannedAgain ==
  (pc = "parse" /\ LexerScans(reader, Unread, is_ending)) =>
    LET Returned(r) == r.kind = "None" => r.consumed_bytes = Len(Unread)
    IN Returned(read_next_event(reader, Unread, is_ending))

\* The events are those of exactly one value: a scalar alone, or a Start
\* event, what it holds, and the End event that closes it.
OneValue(events) ==
  /\ events # <<>>
  /\ \A k \in DOMAIN events : events[k].kind = "Event"
  /\ events[1].event.kind \in ValueEvents
  /\ Depth(events, Len(events)) = 0
  /\ \A k \in 1..(Len(events) - 1) : Depth(events, k) > 0

\* What the parser gave in all, to parse_next and to the drains, in order.
RECURSIVE Flatten(_, _)
Flatten(t, i) ==
  IF i > Len(t) THEN <<>>
  ELSE (IF t[i].kind = "Drained" THEN [k \in DOMAIN t[i].drained |-> t[i].drained[k].event]
        ELSE <<t[i].event>>) \o Flatten(t, i + 1)

\* C20: a drain called right after an ObjectKey consumes the events of
\* exactly one value, the value of that key, and the event parse_next returns
\* after it is the next key of the same object or the EndObject of that
\* object; with the events of the drains put back in place, the events are
\* those of the document, so no event of a drained value goes to parse_next.
C20_DrainOneValue ==
  /\ \A i \in DOMAIN trace :
       trace[i].kind = "Drained" =>
         /\ OneValue(trace[i].drained)
         /\ i < Len(trace) =>
              /\ trace[i + 1].event.kind \in {"ObjectKey", "EndObject"}
              /\ Depth(trace, i + 1)
                   = Depth(trace, i - 1)
                     - (IF trace[i + 1].event.kind = "EndObject" THEN 1 ELSE 0)
  /\ pc = "done" =>
       \E d \in ValidDocuments :
         d.bytes = input /\ Flatten(trace, 1) = Append(d.events, EofEvent)

\* C20 witness: a drained value that holds a key of its own, followed by the
\* EndObject of the parent, in a parse that reached Eof.
C20_Witness ==
  /\ pc = "done"
  /\ \E i \in DOMAIN trace :
       /\ trace[i].kind = "Drained"
       /\ \E k \in DOMAIN trace[i].drained : trace[i].drained[k].event.kind = "ObjectKey"
       /\ i < Len(trace)
       /\ trace[i + 1].event.kind = "EndObject"

\* The bytes that are consumed without being part of a value token: the
\* whitespace, ',' and ':', and the first byte of a BOM.
Skippable == Whitespace \union {Ascii[","], Ascii[":"], BOM[1]}

\* C21: consumed_bytes of a call is at most the length of the buffer it was
\* given.  When the call returns None, the bytes left are those of the
\* incomplete token: a call on them alone consumes nothing and returns None
\* again, and if the buffer began with a byte of a value token nothing was
\* consumed at all.  When the call returns an event other than Eof read
\* from the buffer, the last byte consumed is the last byte of a token, not
\* a separator.
C21_ConsumedBytes ==
  pc = "parse" =>
    LET Again(r2) == r2.kind = "None" /\ r2.consumed_bytes = 0
        Returned(r) ==
          /\ r.consumed_bytes >= 0
          /\ r.consumed_bytes <= Len(Unread)
          /\ r.kind = "None" =>
               /\ Again(read_next_event(r.reader, SliceFrom(Unread, r.consumed_bytes),
                                        is_ending))
               /\ (Unread # <<>> /\ Unread[1] \notin Skippable) => r.consumed_bytes = 0
          /\ (r.kind = "Event" /\ r.event # EofEvent /\ r.consumed_bytes > 0) =>
               Unread[r.consumed_bytes] \notin Skippable
    IN Returned(read_next_event(reader, Unread, is_ending))

\* C21 witness: the next call consumes whitespace or separators and then
\* returns None on an incomplete token that it leaves in the buffer.
C21_Witness ==
  /\ pc = "parse"
  /\ LET Returned(r) ==
           r.kind = "None" /\ r.consumed_bytes > 0 /\ r.consumed_bytes < Len(Unread)
     IN Returned(read_next_event(reader, Unread, is_ending))

(***************************************************************************)
(* SpecString: a string of Unicode scalar values is written by the         *)
(* serializer as a String event or as an ObjectKey event, and the bytes    *)
(* written are parsed back.  `input` holds the string.                     *)
(***************************************************************************)
MaxStringLen == 2

\* Scalar values of every class write_escaped_json_string and read_string
\* tell apart: the controls with and without a named escape, the two
\* escaped printable characters, '/', DEL, and the first and last scalar of
\* each UTF-8 length around the surrogate range.
StringScalars ==
  {0, 8, 9, 10, 12, 13, 31, 32, 34, 47, 92, 97, 127, 128, 233, 2047, 2048, 8364,
   55295, 57344, 65535, 65536, 128512, 1114111}

InitString ==
  /\ input \in SeqUpTo(StringScalars, MaxStringLen)
  /\ reader = NewReader
  /\ input_cursor = 0
  /\ avail = 0
  /\ is_ending = TRUE
  /\ pc = "write"
  /\ trace = <<>>
  /\ split = FALSE
  /\ final_calls = 0
  /\ writer = NewSerializer
  /\ output = <<>>
  /\ wlog = <<>>
  /\ finished = "unset"
  /\ input_buffer = <<>>
  /\ input_buffer_start = 0
  /\ input_buffer_end = 0
  /\ max_buffer_size = 0

\* serialize_event(JsonEvent::String(input))
WriteString ==
  /\ pc = "write"
  /\ LET event == Event("String", input)
         Serialized(w) ==
           /\ writer' = w.writer
           /\ output' = output \o w.bytes
           /\ wlog' = Append(wlog, LogEntry(writer, event, w))
     IN Serialized(serialize_event(writer, event))
  /\ pc' = "read"
  /\ UNCHANGED <<input, reader, input_cursor, avail, is_ending, trace, split,
                 final_calls, finished>>
  /\ UNCHANGED adapter_vars

\* serialize_event(JsonEvent::StartObject) and then
\* serialize_event(JsonEvent::ObjectKey(input))
WriteObjectKey ==
  /\ pc = "write"
  /\ LET start == Event("StartObject", <<>>)
         key == Event("ObjectKey", input)
         Serialized(w0, w) ==
           /\ writer' = w.writer
           /\ output' = (output \o w0.bytes) \o w.bytes
           /\ wlog' = wlog \o <<LogEntry(writer, start, w0), LogEntry(w0.writer, key, w)>>
         Opened(w0) == Serialized(w0, serialize_event(w0.writer, key))
     IN Opened(serialize_event(writer, start))
  /\ pc' = "read"
  /\ UNCHANGED <<input, reader, input_cursor, avail, is_ending, trace, split,
                 final_calls, finished>>
  /\ UNCHANGED adapter_vars

\* The bytes written are parsed with a new reader until Eof.
ReadBack ==
  /\ pc = "read"
  /\ trace' = ParseAll(NewReader, output, Fuel(output))
  /\ pc' = "done"
  /\ UNCHANGED <<input, reader, input_cursor, avail, is_ending, split, final_calls,
                 writer, output, wlog, finished>>
  /\ UNCHANGED adapter_vars

NextString == WriteString \/ WriteObjectKey \/ ReadBack

SpecString == InitString /\ [][NextString]_vars

\* The form the bytes written for one scalar value have.
IsHexOf(b, v) == b = (IF v < 10 THEN Ascii["0"] + v ELSE Ascii["A"] + v - 10)
                 \/ b = (IF v < 10 THEN Ascii["0"] + v ELSE Ascii["a"] + v - 10)
BackslashEscaped(c, b) == b = <<Ascii["\\"], c>>
NamedEscape(b) == Len(b) = 2 /\ b[1] = Ascii["\\"] /\ b[2] \in {Ascii["b"], Ascii["f"], Ascii["n"], Ascii["r"], Ascii["t"]}
ShortUnicodeEscape(c, b) ==
  /\ Len(b) = 6
  /\ b[1] = Ascii["\\"] /\ b[2] = Ascii["u"] /\ b[3] = Ascii["0"] /\ b[4] = Ascii["0"]
  /\ IsHexOf(b[5], c \div 16) /\ IsHexOf(b[6], c % 16)
DirectUtf8(c, b) ==
  /\ Len(b) = (IF c < 128 THEN 1 ELSE IF c < 2048 THEN 2 ELSE IF c < 65536 THEN 3 ELSE 4)
  /\ \A k \in DOMAIN b : b[k] # Ascii["\\"]
  /\ LET Decoded(d) == d.ok /\ d.chars = <<c>>
     IN Decoded(from_utf8(b, 0, <<>>))

\* C22: the bytes written for String(s) or ObjectKey(s) are parsed back,
\* with no error, into the same event with exactly s; in them '"' and '\'
\* are backslash-escaped, a scalar below 0x20 is a named escape or \u00XX,
\* and any other scalar is its UTF-8 encoding (for a supplementary code
\* point four bytes, not the escapes of a surrogate pair).
C22_StringRoundTrip ==
  /\ pc \in {"read", "done"} =>
       /\ NoSerializerError
       /\ wlog[Len(wlog)].event.val = input
       /\ wlog[Len(wlog)].bytes \in
            {write_escaped_json_string(input) \o post : post \in {<<>>, <<Ascii[":"]>>}}
       /\ \A i \in DOMAIN input :
            LET AsClaimed(c, b) ==
                  IF c \in {34, 92} THEN BackslashEscaped(c, b)
                  ELSE IF c < 32 THEN NamedEscape(b) \/ ShortUnicodeEscape(c, b)
                  ELSE DirectUtf8(c, b)
            IN AsClaimed(input[i], write_escaped_char(input[i]))
  /\ pc = "done" =>
       /\ Len(trace) >= Len(wlog)
       /\ \A i \in DOMAIN wlog :
            trace[i] = [kind |-> "Event", event |-> wlog[i].event, error |-> NoError]

\* C22 witness: an object key holding a supplementary code point and a
\* control character without a named escape was written and parsed back.
C22_Witness ==
  /\ pc = "done"
  /\ wlog[Len(wlog)].event.kind = "ObjectKey"
  /\ \E i \in DOMAIN input : input[i] >= 65536
  /\ \E i \in DOMAIN input : input[i] = 31

\* The grammar stack after d nested opening square brackets.
OpenArrays(d) ==
  [i \in 1..d |-> IF i = d THEN "ArrayValueOrEnd" ELSE "ArrayCommaOrEnd"]

\* C23 as stated: a reader created with new() and never given
\* with_max_stack_size rejects no opening bracket with a 'Max stack size'
\* error: not even the one read when MAX_STATE_STACK_SIZE + 1 arrays are
\* open.
C23_NoLimitByDefault ==
  (pc = "parse" /\ reader.buffered_event = NoEvent) =>
    LET nested == [reader EXCEPT !.state_stack = OpenArrays(MAX_STATE_STACK_SIZE + 1),
                                 !.element_read = TRUE]
        NotRejected(r) ==
          ~(r.kind = "Error"
            /\ r.error.message = "Max stack size of {} reached on an object opening")
    IN NotRejected(read_next_event(nested, <<Ascii["["]>>, FALSE))

\* The bytes from the start of the token the lexer stopped on, r being what
\* read_next_token returned for the unread bytes.
TokenBytes(r) ==
  SliceFrom(Unread, r.lexer.file_start_of_last_token - reader.lexer.file_offset)

\* A word that begins like a literal and ends, with the buffer, before the
\* length of that literal.
ShortKeyword(bytes) ==
  /\ bytes # <<>>
  /\ \/ bytes[1] = Ascii["t"] /\ Len(bytes) < Len(Bytes(<<"t", "r", "u", "e">>))
     \/ bytes[1] = Ascii["f"] /\ Len(bytes) < Len(Bytes(<<"f", "a", "l", "s", "e">>))
     \/ bytes[1] = Ascii["n"] /\ Len(bytes) < Len(Bytes(<<"n", "u", "l", "l">>))

OpenString(bytes) == bytes # <<>> /\ bytes[1] = Ascii["q"]

Digits == Ascii["0"]..(Ascii["0"] + 9)
CutNumber(bytes) ==
  /\ bytes # <<>>
  /\ bytes[1] \in Digits \union {Ascii["-"]}
  /\ bytes[Len(bytes)] \in {Ascii["-"], Ascii["."], Ascii["e"], Ascii["E"], Ascii["+"]}

RecoveryFragments ==
  {Bytes(<<"[", "1">>), Bytes(<<"{", "q", "a", "q", ":", "1">>), Bytes(<<"{", "q", "a", "q">>),
   Bytes(<<" ", "1">>), Bytes(<<",">>), Bytes(<<"]">>), Bytes(<<"}">>), Bytes(<<"[">>),
   Bytes(<<":">>)}

InitRecovery == InitWith(Family(RecoveryFragments), {NewReader})

SpecRecovery == InitRecovery /\ [][Next]_vars

\* The token the next call of read_next_event reads first.
NextToken == read_next_token(reader.lexer, Unread, is_ending)

\* The reader is between two tokens with `state` on top of its stack.
OnTop(state) ==
  /\ pc = "parse"
  /\ reader.buffered_event = NoEvent
  /\ reader.state_stack # <<>>
  /\ Top(reader.state_stack) = state

\* The result of the call that follows the call that returned r.
CallAfter(r) == read_next_event(r.reader, SliceFrom(Unread, r.consumed_bytes), is_ending)

\* C25: when the token read with ArrayValue (ObjectKey) on top, that is
\* right after a comma, is ']' ('}'), the call returns the error 'Trailing
\* commas are not allowed', the next call returns EndArray (EndObject)
\* without reading anything, and the frame is popped; [1,] gives
\* StartArray, Number(1), the error, EndArray, Eof and is written back as
\* [1].
C25_TrailingComma ==
  /\ \A c \in {<<"ArrayValue", "ClosingSquareBracket", "EndArray">>,
               <<"ObjectKey", "ClosingCurlyBracket", "EndObject">>} :
       (OnTop(c[1]) /\ NextToken.kind = "Token" /\ NextToken.token.t = c[2]) =>
         LET Second(r2) ==
               /\ r2.kind = "Event"
               /\ r2.event = Event(c[3], <<>>)
               /\ r2.consumed_bytes = 0
               /\ r2.reader.state_stack = Pop(reader.state_stack)
             First(r) ==
               /\ r.kind = "Error"
               /\ r.error.message = "Trailing commas are not allowed"
               /\ Second(CallAfter(r))
         IN First(read_next_event(reader, Unread, is_ending))
  /\ (pc = "done" /\ input = Bytes(<<"[", "1", ",", "]">>)) =>
       /\ Len(trace) = 5
       /\ trace[1].event = Event("StartArray", <<>>)
       /\ trace[2].event = Event("Number", Bytes(<<"1">>))
       /\ trace[3].kind = "Error"
       /\ trace[4].event = Event("EndArray", <<>>)
       /\ trace[5].event = EofEvent
       /\ output = Bytes(<<"[", "1", "]">>)
       /\ finished = ""

\* C25 witness: '}' is the next token right after a comma in an object.
C25_Witness ==
  /\ OnTop("ObjectKey")
  /\ NextToken.kind = "Token"
  /\ NextToken.token.t = "ClosingCurlyBracket"

\* The tokens a value begins with.
ValueTokens ==
  {"String", "Number", "True", "False", "Null", "OpeningSquareBracket", "OpeningCurlyBracket"}
ScalarTokens == {"String", "Number", "True", "False", "Null"}

\* What apply_new_token gives for `token` once `separator` has been read.
AfterSeparator(separator, token) ==
  apply_new_token(apply_new_token(reader, [t |-> separator, val |-> <<>>]).reader, token)

\* C26: when the token read with ObjectColon on top, that is right after an
\* object key, begins a value, the call returns one error and the next call
\* returns, without reading anything, the event of that value; the stack is
\* then the one that ':' followed by the same token would have left, with
\* ObjectCommaOrEnd on top when the value is a scalar; {"a" 1} gives one
\* error and is written back as {"a":1}.
C26_MissingColon ==
  /\ (OnTop("ObjectColon") /\ NextToken.kind = "Token" /\ NextToken.token.t \in ValueTokens) =>
       LET Second(r2, expected) ==
             /\ expected.error = NoMessage
             /\ r2.kind = "Event"
             /\ r2.event = expected.event
             /\ r2.event.kind \in ValueEvents
             /\ r2.consumed_bytes = 0
             /\ r2.reader.state_stack = expected.reader.state_stack
             /\ NextToken.token.t \in ScalarTokens =>
                  r2.reader.state_stack = Append(Pop(reader.state_stack), "ObjectCommaOrEnd")
           First(r) ==
             /\ r.kind = "Error"
             /\ Second(CallAfter(r), AfterSeparator("Colon", NextToken.token))
       IN First(read_next_event(reader, Unread, is_ending))
  /\ (pc = "done" /\ input = Bytes(<<"{", "q", "a", "q", " ", "1", "}">>)) =>
       /\ Cardinality({i \in DOMAIN trace : trace[i].kind = "Error"}) = 1
       /\ output = Bytes(<<"{", "q", "a", "q", ":", "1", "}">>)
       /\ finished = ""

\* C26 witness: a number is the next token right after an object key.
C26_Witness ==
  /\ OnTop("ObjectColon")
  /\ NextToken.kind = "Token"
  /\ NextToken.token.t = "Number"

\* C27: when the token read with ArrayCommaOrEnd on top, that is right
\* after an array element, begins a value, the call returns one error and
\* the next call returns, without reading anything, the event of that
\* value; the stack is then the one that ',' followed by the same token
\* would have left, the same as before the call when the value is a
\* scalar, so the array is still open; [1 1] gives one error and is
\* written back as [1,1].
C27_MissingComma ==
  /\ (OnTop("ArrayCommaOrEnd") /\ NextToken.kind = "Token"
      /\ NextToken.token.t \in ValueTokens) =>
       LET Second(r2, expected) ==
             /\ expected.error = NoMessage
             /\ r2.kind = "Event"
             /\ r2.event = expected.event
             /\ r2.event.kind \in ValueEvents
             /\ r2.consumed_bytes = 0
             /\ r2.reader.state_stack = expected.reader.state_stack
             /\ Len(r2.reader.state_stack) >= Len(reader.state_stack)
             /\ SubSeq(r2.reader.state_stack, 1, Len(reader.state_stack)) = reader.state_stack
             /\ NextToken.token.t \in ScalarTokens => r2.reader.state_stack = reader.state_stack
           First(r) ==
             /\ r.kind = "Error"
             /\ Second(CallAfter(r), AfterSeparator("Comma", NextToken.token))
       IN First(read_next_event(reader, Unread, is_ending))
  /\ (pc = "done" /\ input = Bytes(<<"[", "1", " ", "1", "]">>)) =>
       /\ Cardinality({i \in DOMAIN trace : trace[i].kind = "Error"}) = 1
       /\ output = Bytes(<<"[", "1", ",", "1", "]">>)
       /\ finished = ""

\* C27 witness: a number is the next token right after an array element.
C27_Witness ==
  /\ OnTop("ArrayCommaOrEnd")
  /\ NextToken.kind = "Token"
  /\ NextToken.token.t = "Number"

\* C28 as stated: when the token read with ObjectCommaOrEnd on top, that is
\* right after an object value, is neither ',' nor '}' (nor the end of the
\* input), the call returns an error and the frames of the stack are still
\* there, the object's included; in {"a":1 1} the '}' then gives the
\* EndObject of the object.
C28_ObjectStaysOpen ==
  /\ (OnTop("ObjectCommaOrEnd") /\ NextToken.kind = "Token"
      /\ NextToken.token.t \notin {"Comma", "ClosingCurlyBracket", "Eof"}) =>
       LET First(r) ==
             /\ r.kind = "Error"
             /\ Len(r.reader.state_stack) >= Len(reader.state_stack)
             /\ SubSeq(r.reader.state_stack, 1, Len(reader.state_stack)) = reader.state_stack
       IN First(read_next_event(reader, Unread, is_ending))
  /\ (pc = "done" /\ input = Bytes(<<"{", "q", "a", "q", ":", "1", " ", "1", "}">>)) =>
       \E i \in DOMAIN trace : trace[i].kind = "Event" /\ trace[i].event = Event("EndObject", <<>>)

Literals ==
  {Bytes(<<"t", "r", "u", "e">>), Bytes(<<"f", "a", "l", "s", "e">>),
   Bytes(<<"n", "u", "l", "l">>)}

\* The unread bytes begin with a whole run of ASCII letters that starts with
\* 't', 'f' or 'n' and does not begin with a literal: the run is followed by
\* another byte, or the buffer is final.
AtBadKeyword ==
  /\ pc = "parse"
  /\ reader.buffered_event = NoEvent
  /\ ~reader.lexer.is_start
  /\ Unread # <<>>
  /\ Unread[1] \in {Ascii["t"], Ascii["f"], Ascii["n"]}
  /\ \A literal \in Literals : ~starts_with(Unread, literal)
  /\ is_ending \/ CountWhileAlpha(Unread, 0) < Len(Unread)

\* C29 as stated: at such a run the call returns one syntax error, consumes
\* exactly the run and leaves the grammar stack unchanged, whether the
\* buffer is final or not; [t] gives StartArray, one error, EndArray, Eof.
C29_BadKeywordOneError ==
  /\ AtBadKeyword =>
       LET Returned(r) ==
             /\ r.kind = "Error"
             /\ r.consumed_bytes = CountWhileAlpha(Unread, 0)
             /\ r.reader.state_stack = reader.state_stack
       IN Returned(read_next_event(reader, Unread, is_ending))
  /\ (pc = "done" /\ input = Bytes(<<"[", "t", "]">>)) =>
       /\ Len(trace) = 4
       /\ trace[1].event = Event("StartArray", <<>>)
       /\ trace[2].kind = "Error"
       /\ trace[3].event = Event("EndArray", <<>>)
       /\ trace[4].event = EofEvent

(***************************************************************************)
(* SpecSurrogates: a string made of \uXXXX escapes and of plain text, at   *)
(* the root or as the first key of an object, is parsed as a final buffer. *)
(* Every item of the string is six bytes long.                             *)
(***************************************************************************)
MaxEscapes == 3

\* The code units escaped: the first and the last high and low surrogate,
\* one more of each, and a letter.  PlainText stands for six plain bytes.
EscapedUnits == {55296, 55330, 56319, 56320, 56321, 57343, 65}
PlainText == -1
SurrogateItems == EscapedUnits \union {PlainText}

ItemBytes(item) ==
  IF item = PlainText THEN Bytes(<<"a", "a", "a", "a", "a", "a">>)
  ELSE <<Ascii["\\"], Ascii["u"],
         HexDigit((item \div 4096) % 16), HexDigit((item \div 256) % 16),
         HexDigit((item \div 16) % 16), HexDigit(item % 16)>>

RECURSIVE ItemsBytes(_)
ItemsBytes(items) ==
  IF items = <<>> THEN <<>> ELSE ItemBytes(Head(items)) \o ItemsBytes(Tail(items))

StringBytes(before, items) == before \o <<Ascii["q"]>> \o ItemsBytes(items) \o <<Ascii["q"]>>

SurrogateInputs ==
  {StringBytes(before, items) :
     before \in {<<>>, <<Ascii["{"]>>}, items \in SeqUpTo(SurrogateItems, MaxEscapes)}

InitSurrogates ==
  /\ input \in SurrogateInputs
  /\ reader = NewReader
  /\ input_cursor = 0
  /\ avail = 0
  /\ is_ending = TRUE
  /\ pc = "lex"
  /\ trace = <<>>
  /\ split = FALSE
  /\ final_calls = 0
  /\ writer = NewSerializer
  /\ output = <<>>
  /\ wlog = <<>>
  /\ finished = "unset"
  /\ input_buffer = <<>>
  /\ input_buffer_start = 0
  /\ input_buffer_end = 0
  /\ max_buffer_size = 0

\* FromBufferJsonReader::new(input) and read_next_event until Eof.
ParseInput ==
  /\ pc = "lex"
  /\ trace' = ParseAll(reader, input, Fuel(input))
  /\ pc' = "done"
  /\ UNCHANGED <<input, reader, input_cursor, avail, is_ending, split, final_calls,
                 writer, output, wlog, finished>>
  /\ UNCHANGED adapter_vars

NextSurrogates == ParseInput

SpecSurrogates == InitSurrogates /\ [][NextSurrogates]_vars

\* The items the string of the input is made of.
InObject == input[1] = Ascii["{"]
InputItems ==
  LET first == IF InObject THEN 2 ELSE 1
  IN [k \in 1..((Len(input) - first - 1) \div 6) |->
        CHOOSE item \in SurrogateItems :
          ItemBytes(item) = SubSeq(input, first + 1 + (6 * (k - 1)), first + (6 * k))]

IsHigh(item) == item >= 55296 /\ item <= 56319
IsLow(item) == item >= 56320 /\ item <= 57343

\* The text the items stand for when every high surrogate is immediately
\* followed by a low one and every low one follows a high one: [ok, s].
RECURSIVE SurrogatesDecoded(_, _)
SurrogatesDecoded(items, i) ==
  IF i > Len(items) THEN [ok |-> TRUE, s |-> <<>>]
  ELSE LET Then(first, rest) == [ok |-> rest.ok, s |-> first \o rest.s]
       IN IF IsHigh(items[i]) THEN
            IF i < Len(items) /\ IsLow(items[i + 1])
              THEN Then(<<65536 + ((items[i] - 55296) * 1024) + (items[i + 1] - 56320)>>,
                        SurrogatesDecoded(items, i + 2))
            ELSE [ok |-> FALSE, s |-> <<>>]
          ELSE IF IsLow(items[i]) THEN [ok |-> FALSE, s |-> <<>>]
          ELSE IF items[i] = PlainText
            THEN Then(ItemBytes(PlainText), SurrogatesDecoded(items, i + 1))
          ELSE Then(<<items[i]>>, SurrogatesDecoded(items, i + 1))

\* C30: a string in which every \uHHHH of D800..DBFF is immediately
\* followed by a \uLLLL of DC00..DFFF, and every such \uLLLL follows such a
\* \uHHHH, is returned with no error as the String (or ObjectKey) event
\* whose text has 0x10000 + ((HHHH - 0xD800) << 10) + (LLLL - 0xDC00) for
\* each pair; a string with a lone low surrogate, or a high surrogate
\* followed by something else than a low surrogate escape, gives a syntax
\* error and no String or ObjectKey event.
C30_SurrogatePairs ==
  pc = "done" =>
    LET Parsed(d) ==
          IF d.ok THEN
            IF InObject
              THEN /\ Len(trace) >= 2
                   /\ trace[1] = [kind |-> "Event", event |-> Event("StartObject", <<>>),
                                  error |-> NoError]
                   /\ trace[2] = [kind |-> "Event", event |-> Event("ObjectKey", d.s),
                                  error |-> NoError]
            ELSE trace = <<[kind |-> "Event", event |-> Event("String", d.s),
                            error |-> NoError],
                           [kind |-> "Event", event |-> EofEvent, error |-> NoError]>>
          ELSE /\ \E i \in DOMAIN trace : trace[i].kind = "Error"
               /\ \A i \in DOMAIN trace : trace[i].event.kind \notin {"String", "ObjectKey"}
    IN Parsed(SurrogatesDecoded(InputItems, 1))

\* C30 witness: an object key holding a surrogate pair and a letter was
\* returned.
C30_Witness ==
  /\ pc = "done"
  /\ Len(trace) >= 2
  /\ trace[2].event.kind = "ObjectKey"
  /\ \E k \in DOMAIN trace[2].event.val : trace[2].event.val[k] >= 65536
  /\ \E k \in DOMAIN trace[2].event.val : trace[2].event.val[k] = 65

(***************************************************************************)
(* SpecNumber: an input made of the bytes a number is written with is      *)
(* parsed as a final buffer.                                               *)
(***************************************************************************)
MaxNumberLen == 5

NumberBytes ==
  {Ascii["-"], Ascii["+"], Ascii["."], Ascii["e"], Ascii["E"], Ascii["0"], Ascii["1"]}

InitNumber ==
  /\ input \in SeqUpTo(NumberBytes, MaxNumberLen)
  /\ reader = NewReader
  /\ input_cursor = 0
  /\ avail = 0
  /\ is_ending = TRUE
  /\ pc = "lex"
  /\ trace = <<>>
  /\ split = FALSE
  /\ final_calls = 0
  /\ writer = NewSerializer
  /\ output = <<>>
  /\ wlog = <<>>
  /\ finished = "unset"
  /\ input_buffer = <<>>
  /\ input_buffer_start = 0
  /\ input_buffer_end = 0
  /\ max_buffer_size = 0

SpecNumber == InitNumber /\ [][ParseInput]_vars

\* The index after the digits of s that begin at index i.
RECURSIVE DigitsEnd(_, _)
DigitsEnd(s, i) ==
  IF i <= Len(s) /\ s[i] >= Ascii["0"] /\ s[i] <= Ascii["0"] + 9 THEN DigitsEnd(s, i + 1)
  ELSE i

\* s matches -?(0|[1-9][0-9]*)(\.[0-9]+)?([eE][+-]?[0-9]+)?
MatchesNumber(s) ==
  LET At(i, set) == i <= Len(s) /\ s[i] \in set
      i0 == IF At(1, {Ascii["-"]}) THEN 2 ELSE 1
      i1 == IF At(i0, {Ascii["0"]}) THEN i0 + 1 ELSE DigitsEnd(s, i0)
      i2 == IF At(i1, {Ascii["."]}) THEN DigitsEnd(s, i1 + 1) ELSE i1
      i3 == IF At(i2, {Ascii["e"], Ascii["E"]})
              THEN IF At(i2 + 1, {Ascii["+"], Ascii["-"]}) THEN i2 + 2 ELSE i2 + 1
            ELSE i2
      i4 == IF i3 > i2 THEN DigitsEnd(s, i3) ELSE i3
  IN /\ i1 > i0
     /\ At(i1, {Ascii["."]}) => i2 > i1 + 1
     /\ i3 > i2 => i4 > i3
     /\ i4 = Len(s) + 1

\* C31: the final input parses to Number(input), Eof with no error exactly
\* when it matches the grammar of JSON numbers, and the parse of an input
\* that does not match returns a syntax error; 0 and -0 parse, 01, 1. and
\* 1e do not.
C31_NumberGrammar ==
  pc = "done" =>
    LET parsed == trace = <<[kind |-> "Event", event |-> Event("Number", input),
                             error |-> NoError],
                            [kind |-> "Event", event |-> EofEvent, error |-> NoError]>>
    IN /\ parsed <=> MatchesNumber(input)
       /\ ~MatchesNumber(input) => \E i \in DOMAIN trace : trace[i].kind = "Error"
       /\ input \in {Bytes(<<"0">>), Bytes(<<"-", "0">>)} => parsed
       /\ input \in {Bytes(<<"0", "1">>), Bytes(<<"1", ".">>), Bytes(<<"1", "e">>)} => ~parsed

\* C31 witness: a number with a fraction and an exponent was parsed.
C31_Witness ==
  /\ pc = "done"
  /\ input = Bytes(<<"1", ".", "0", "e">>) \o Bytes(<<"1">>)
  /\ Len(trace) = 2
  /\ trace[1].event = Event("Number", input)

(***************************************************************************)
(* SpecLines: the chunked parse of inputs made of line breaks, spaces, a   *)
(* BOM and one-byte tokens.                                                *)
(***************************************************************************)
LineBreakFragments == LineFragments \union {Bytes(<<"CR", "LF">>), Bytes(<<"TAB">>)}

InitLines == InitWith(Family(LineBreakFragments), {NewReader})

SpecLines == InitLines /\ [][Next]_vars

EndsWithLoneCR ==
  /\ pc = "parse"
  /\ ~is_ending
  /\ Unread # <<>>
  /\ Unread[Len(Unread)] = Ascii["CR"]
  /\ \A k \in DOMAIN Unread : Unread[k] \in Whitespace

\* What C33 states of the call on such a buffer and of the call after it,
\* made on the '\r' and the rest of the input.
LoneCRKept ==
  LET before == SubSeq(Unread, 1, Len(Unread) - 1)
      later == <<Ascii["CR"]>> \o SliceFrom(input, avail)
      Following(r, nx) ==
        /\ nx.kind # "None"
        /\ nx.lexer.file_start_of_last_token > r.lexer.file_offset
        /\ nx.lexer.file_line
             = r.lexer.file_line
               + EndPosition(SubSeq(later, 1, nx.lexer.file_start_of_last_token
                                              - r.lexer.file_offset), 0, 0, 0).line
      Lexed(r) ==
        /\ r.kind = "None"
        /\ r.lexer.file_offset = reader.lexer.file_offset + Len(before)
        /\ r.lexer.file_line = reader.lexer.file_line + EndPosition(before, 0, 0, 0).line
        /\ Following(r, read_next_token(r.lexer, later, TRUE))
  IN Lexed(read_next_token(reader.lexer, Unread, FALSE))

\* C33 as stated: on every non-final buffer that ends with a lone '\r'
\* after optional whitespace the lexer returns None, has consumed the
\* whitespace before the '\r' and not the '\r', and has counted the line
\* breaks before the '\r' only; the following call counts the '\r' (with a
\* '\n' that follows it) once.
C33_LoneCRKept == EndsWithLoneCR => LoneCRKept

\* C33: the same, once the lexer is past the wait for the three bytes that
\* may hold a BOM (it is not the first call with fewer than three bytes).
C33_LoneCRKeptAfterStart ==
  (EndsWithLoneCR /\ LexerScans(reader, Unread, is_ending)) => LoneCRKept

\* C33 witness: whitespace with a line break, then a '\r' that ends the
\* non-final buffer, with a '\n' next in the input.
C33_Witness ==
  /\ EndsWithLoneCR
  /\ LexerScans(reader, Unread, is_ending)
  /\ Len(Unread) >= 2
  /\ Unread[1] = Ascii["LF"]
  /\ avail < Len(input)
  /\ input[avail + 1] = Ascii["LF"]

\* C34: in FromReadJsonReader, once the source has returned zero bytes
\* (is_ending, set by `read == 0`), is_ending stays true, so every later
\* call of the parser is made with is_ending = true, and every later
\* iteration of the loop returns what the parser returned without a read of
\* the source: the buffer and the count of bytes taken from the source are
\* unchanged.
C34_EndingIsFinal ==
  [][is_ending =>
       /\ is_ending'
       /\ input_cursor' = input_cursor
       /\ input_buffer' = input_buffer
       /\ input_buffer_end' = input_buffer_end
       /\ Len(trace') = Len(trace) + 1
       /\ trace'[Len(trace')].kind \in {"Event", "Error"}]_vars

\* C34 witness: the source has returned zero bytes and the parser has been
\* called until Eof after that, and returned more than one event or error.
C34_Witness ==
  /\ is_ending
  /\ pc = "done"
  /\ input_cursor = Len(input)
  /\ input_buffer_start > 0
  /\ Len(trace) >= 3

\* The containers opened and not yet closed in the event stream: the Start
\* events less the End events, among the events returned and the buffered
\* one.
OpenInEvents ==
  Depth(trace, Len(trace))
  + (IF reader.buffered_event.kind \in {"StartArray", "StartObject"} THEN 1
     ELSE IF reader.buffered_event.kind \in {"EndArray", "EndObject"} THEN -1
     ELSE 0)

\* C35 as stated: after every call of read_next_event, on any input, the
\* depth of the grammar stack is the number of containers opened and not
\* yet closed in the event stream, and an Eof that does not come with an
\* error is returned only with an empty stack and element_read set.
C35_StackDepthIsOpenContainers ==
  /\ Len(reader.state_stack) = OpenInEvents
  /\ (/\ pc = "done"
      /\ ~(Len(trace) >= 2 /\ trace[Len(trace) - 1].kind = "Error")) =>
       (reader.state_stack = <<>> /\ reader.element_read)

\* The top of the serializer's stack before call i ("None" when empty) and
\* the stack after it.
TopBefore(i) == IF wlog[i].stack = <<>> THEN "None" ELSE Top(wlog[i].stack)
StackAfter(i) == IF i < Len(wlog) THEN wlog[i + 1].stack ELSE writer.state_stack

\* C36: EndArray is accepted exactly when the top state is OpenArray or
\* ContinuationArray, EndObject exactly when it is OpenObject or
\* ContinuationObject; an accepted End event writes its bracket and pops
\* the state, a rejected one writes nothing and leaves the stack as it was.
C36_EndEvents ==
  \A i \in DOMAIN wlog :
    /\ wlog[i].event.kind = "EndArray" =>
         (Accepted(i) <=> TopBefore(i) \in {"OpenArray", "ContinuationArray"})
    /\ wlog[i].event.kind = "EndObject" =>
         (Accepted(i) <=> TopBefore(i) \in {"OpenObject", "ContinuationObject"})
    /\ wlog[i].event.kind \in {"EndArray", "EndObject"} =>
         IF Accepted(i)
           THEN /\ wlog[i].bytes
                     = <<IF wlog[i].event.kind = "EndArray" THEN Ascii["]"] ELSE Ascii["}"]>>
                /\ StackAfter(i) = Pop(wlog[i].stack)
         ELSE /\ wlog[i].bytes = <<>>
              /\ StackAfter(i) = wlog[i].stack

\* C36 witness: an EndObject rejected right after an ObjectKey, and an
\* EndArray rejected inside an object.
C36_Witness ==
  \E i \in DOMAIN wlog :
    /\ wlog[i].event.kind \in {"EndObject", "EndArray"}
    /\ ~Accepted(i)
    /\ TopBefore(i) = "ObjectValue"
    /\ i < Len(wlog)

\* The element_written flag after call i.
ElementWrittenAfter(i) ==
  IF i < Len(wlog) THEN wlog[i + 1].element_written ELSE writer.element_written

\* C37 as stated: every serialize_event call that returns an error writes
\* no byte and leaves the state stack and the element_written flag as they
\* were before the call.
C37_RejectedEventChangesNothing ==
  \A i \in DOMAIN wlog :
    ~Accepted(i) =>
      /\ wlog[i].bytes = <<>>
      /\ StackAfter(i) = wlog[i].stack
      /\ ElementWrittenAfter(i) = wlog[i].element_written

\* What holds of the rejected calls: none writes a byte or changes
\* element_written, and every one but an ObjectKey on a non-empty stack
\* leaves the stack as it was; a rejected ObjectKey removes the top state.
RejectedEventEffect ==
  \A i \in DOMAIN wlog :
    ~Accepted(i) =>
      /\ wlog[i].bytes = <<>>
      /\ ElementWrittenAfter(i) = wlog[i].element_written
      /\ StackAfter(i) = IF wlog[i].event.kind = "ObjectKey" /\ wlog[i].stack # <<>>
                           THEN Pop(wlog[i].stack)
                         ELSE wlog[i].stack

(***************************************************************************)
(* The chunked parse of inputs with tokens the lexer rejects, inside and   *)
(* outside containers.                                                     *)
(***************************************************************************)
LexerErrorFragments ==
  {Bytes(<<"[">>), Bytes(<<"{", "q", "a", "q">>), Bytes(<<":">>), Bytes(<<"1">>),
   Bytes(<<",">>), Bytes(<<"]">>), <<63>>, Bytes(<<"-">>), Bytes(<<"n", "u", "l", ",">>),
   <<34, 92, 120, 34>>}

InitLexerErrors == InitWith(Family(LexerErrorFragments), {NewReader})

SpecLexerErrors == InitLexerErrors /\ [][Next]_vars

\* The call of read_next_event on reader rd and buffer buf returns the
\* error of the lexer for the token at the start of buf, with no event;
\* it consumes the token and leaves the reader as it was but for the lexer.
LexerErrorDropsToken(rd, buf) ==
  LET Returned(tk, r) ==
        /\ r.kind = "Error"
        /\ r.event = NoEvent
        /\ r.error = tk.error
        /\ r.reader = [rd EXCEPT !.lexer = tk.lexer]
        /\ r.reader.buffered_event = NoEvent
        /\ r.consumed_bytes = tk.lexer.file_offset - rd.lexer.file_offset
        /\ r.consumed_bytes >= 1
  IN Returned(read_next_token(rd.lexer, buf, is_ending), read_next_event(rd, buf, is_ending))

\* C38: when the lexer returns a syntax error for the next token, the call
\* returns that error and no event, consumes the token, and leaves the
\* grammar stack, element_read and the buffered-event slot as they were
\* before the token; this holds as well when the call has first applied a
\* ',' or ':' that produced no event (the state is then the one that token
\* left).
C38_LexerErrorKeepsState ==
  (pc = "parse" /\ reader.buffered_event = NoEvent) =>
    LET AfterSilent(a, rest) ==
          (/\ a.error = NoMessage /\ a.event = NoEvent
           /\ read_next_token(a.reader.lexer, rest, is_ending).kind = "Error") =>
            /\ LexerErrorDropsToken(a.reader, rest)
            /\ read_next_event(reader, Unread, is_ending).reader
                 = read_next_event(a.reader, rest, is_ending).reader
        First(tk) ==
          /\ tk.kind = "Error" => LexerErrorDropsToken(reader, Unread)
          /\ (tk.kind = "Token" /\ tk.token.t \in {"Comma", "Colon"}) =>
               AfterSilent(apply_new_token([reader EXCEPT !.lexer = tk.lexer], tk.token),
                           SliceFrom(Unread, tk.lexer.file_offset - reader.lexer.file_offset))
    IN First(NextToken)

\* C38 witness: inside an object whose key has been read, the lexer rejects
\* a token of several bytes.
C38_Witness ==
  /\ pc = "parse"
  /\ reader.buffered_event = NoEvent
  /\ reader.state_stack # <<>>
  /\ Top(reader.state_stack) \in {"ObjectColon", "ObjectValue"}
  /\ NextToken.kind = "Error"
  /\ NextToken.lexer.file_offset >= reader.lexer.file_offset + 2

\* C39 as stated: when an opening bracket is rejected because the stack
\* bound is reached (the call returns the 'Max stack size' error), no Start
\* event is emitted for that bracket: none is left in the buffered-event
\* slot for the next call to return, so every Start event returned has a
\* frame on the grammar stack.
C39_NoStartForRejectedBracket ==
  pc = "parse" =>
    LET Returned(r) ==
          (/\ r.kind = "Error"
           /\ r.error.message = "Max stack size of {} reached on an object opening") =>
            r.reader.buffered_event.kind \notin {"StartArray", "StartObject"}
    IN Returned(read_next_event(reader, Unread, is_ending))

\* C40 as stated: FromReadJsonReader returns the buffer-size error only
\* when, after compaction, the unconsumed bytes fill the whole buffer of
\* max_buffer_size bytes (input_buffer_start = 0 and input_buffer_end =
\* max_buffer_size); it never returns it while the buffer has free space.
C40_ErrorOnlyWhenBufferFull ==
  pc = "failed" =>
    /\ input_buffer_start = 0
    /\ input_buffer_end = max_buffer_size
    /\ input_buffer_end = Len(input_buffer)

\* What holds when the error is returned: the buffer is max_buffer_size
\* long; the bytes read and not consumed may be fewer, or none.
ErrorWhenLengthAtMax ==
  pc = "failed" =>
    /\ Len(input_buffer) = max_buffer_size
    /\ input_buffer_start = 0
    /\ input_buffer_end \in 0..max_buffer_size
====
